---- MODULE Spec2Model ----
(***************************************************************************)
(* Verification model of stravaganza.js ("thisway" demo replayer):         *)
(*   - DemoManager timeline (addFX / _updateFXTiming / toggle / doFrame)   *)
(*   - BinaryReader cursor                                                 *)
(*   - PTA scene loader (loadPtaFile and its chunk readers)                *)
(*   - keyframe interpolation and getTransformMatrix                       *)
(* Each component has its own specification over the shared variable list; *)
(* the variables of the other components stay at their initial values.     *)
(***************************************************************************)
EXTENDS Integers, Sequences, FiniteSets, TLC

\* ------------------------------------------------------------------------
\* State
\* ------------------------------------------------------------------------
\* the timeline (DemoManager)
VARIABLES
  effects,       \* DemoManager.effects: sequence of DemoFXEntry records
  frameTime,     \* demoTime of the most recent doFrame, NoFrame when the list changed since
  frameCalls,    \* fx.doFrame invocations of that frame, in call order
  frameWarns,    \* names logged by the catch block of that frame
  frameThrower,  \* name of the effect that throws when invoked in that frame (NoThrower: none)
  frameThrew,    \* TRUE iff doFrame itself let an exception escape
  lastCall       \* the most recent call on the timeline and its arguments

timelineVars ==
  <<effects, frameTime, frameCalls, frameWarns, frameThrower, frameThrew, lastCall>>

\* the binary cursor (BinaryReader)
VARIABLES
  buffer,     \* BinaryReader.buffer: the bytes, buffer[i] is the byte at offset i - 1
  offset,     \* BinaryReader.offset
  readOp,     \* name of the most recent operation
  readArg,    \* its argument (0 when it has none)
  readFrom,   \* offset before that operation
  readOk,     \* FALSE iff that operation raised a RangeError
  readVal     \* the value it returned, as a sequence

readerVars == <<buffer, offset, readOp, readArg, readFrom, readOk, readVal>>

\* the scene loader (loadPtaFile)
VARIABLES
  ptaFile,     \* description of the file behind the url
  ptaLength,   \* number of bytes of it that the url serves
  ptaLoads,    \* completed loadPtaFile calls
  ptaResult,   \* outcome of the most recent one
  ptaCursor    \* reader.tell() of that load behind the header and behind the
               \* global-info block, as far as it got

ptaVars == <<ptaFile, ptaLength, ptaLoads, ptaResult, ptaCursor>>

\* the transform engine (interpolation, getTransformMatrix)
VARIABLES
  track,         \* the keyframe track handed to the functions: [isNull, times]
  queryTime,     \* the time t of the call
  interpFn,      \* name of the most recent call
  interpResult,  \* what it returned
  animShape,     \* getTransformMatrix: how each of sclKeys/rotKeys/posKeys was given
  axesGiven      \* getTransformMatrix: whether initialAxes was passed

interpVars == <<track, queryTime, interpFn, interpResult, animShape, axesGiven>>

\* the music clock (MusicPlayer)
VARIABLES
  player,     \* the MusicPlayer object, with the audio element's position in it
  now,        \* performance.now()
  musicCall   \* the most recent MusicPlayer call: its name and argument and
              \* getTimeMs() right before and right after it

playerVars == <<player, now, musicCall>>

\* the frame loop (main.js)
VARIABLES
  running,            \* `let running`
  pendingLoops,       \* requestAnimationFrame(loop) callbacks not yet run
  awaitingClicks,     \* start-button handlers suspended at `await requestFullscreen()`
  fullscreenEnabled,  \* `let fullscreenEnabled`
  loopFrames,         \* frames the loop rendered in the most recent animation frame
  loopTime,           \* clock time of the last frame the loop rendered, NoFrame if none
  started,            \* start() has been called
  userStopped,        \* the user has paused or stopped playback since start()
  userInputs          \* number of user inputs so far

loopVars ==
  <<running, pendingLoops, awaitingClicks, fullscreenEnabled, loopFrames, loopTime,
    started, userStopped, userInputs>>

mainVars == <<playerVars, loopVars>>

vars == <<timelineVars, readerVars, ptaVars, interpVars, mainVars>>

\* ------------------------------------------------------------------------
\* Bounds of the timeline model
\* ------------------------------------------------------------------------
MaxEffects == 2
MaxTime == 1
MaxPriority == 1


\* no frame recorded: below every clock time
NoFrame == 0 - 1
NoThrower == "nothrow"

EntryNames == {"A", "B"}
StartTimes == 0..MaxTime
EndTimes == 0..MaxTime
ClockTimes == 0..(MaxTime + 1)
Priorities == 0..MaxPriority

\* an optional script parameter: <<>> is "key absent", <<v>> is the value v
Opt(S) == {<<>>} \cup {<<v>> : v \in S}

\* mutant: the constructor's default `order = 0` taken for every entry
DemoFXEntryDefaultOrder(startTime, endTime, priority, name, order) ==
  [startTime |-> startTime, endTime |-> endTime, priority |-> priority,
   name |-> name, order |-> 0, disabled |-> FALSE]

\* class DemoFXEntry
DemoFXEntry(startTime, endTime, priority, name, order) ==
  [startTime |-> startTime, endTime |-> endTime, priority |-> priority,
   name |-> name, order |-> order, disabled |-> FALSE]

\* mutant: the comparator without the priority key
CompareOrderOnly(a, b) == a.order - b.order

\* mutant: equal priorities ordered by latest registration first
CompareTieReversed(a, b) ==
  IF a.priority - b.priority # 0 THEN a.priority - b.priority
  ELSE b.order - a.order

\* the comparator handed to Array.prototype.sort in doFrame
Compare(a, b) ==
  IF a.priority - b.priority # 0 THEN a.priority - b.priority
  ELSE a.order - b.order

\* Array.prototype.sort is stable: insertion keeps equal keys in input order
RECURSIVE InsertSorted(_, _)
InsertSorted(s, x) ==
  IF s = <<>> THEN <<x>>
  ELSE IF Compare(s[Len(s)], x) > 0
       THEN Append(InsertSorted(SubSeq(s, 1, Len(s) - 1), x), s[Len(s)])
       ELSE Append(s, x)

RECURSIVE SortActive(_)
SortActive(s) ==
  IF s = <<>> THEN <<>>
  ELSE InsertSorted(SortActive(SubSeq(s, 1, Len(s) - 1)), s[Len(s)])

\* mutant: the filter without the test of the window's start
IsActiveNoStart(entry, demoTime) ==
  ~entry.disabled /\ demoTime <= entry.endTime

\* mutant: the window's end excluded
IsActiveEndExclusive(entry, demoTime) ==
  ~entry.disabled /\ demoTime >= entry.startTime /\ demoTime < entry.endTime

\* the filter of doFrame's first loop
IsActive(entry, demoTime) ==
  ~entry.disabled /\ demoTime >= entry.startTime /\ demoTime <= entry.endTime

\* `for (const entry of this.effects) if (...) activeEffects.push(entry)`
SelectActive(list, demoTime) ==
  SelectSeq(list, LAMBDA e : IsActive(e, demoTime))

\* mutant: the call without try/catch, the effect's exception leaves doFrame
ExecuteEntryNoCatch(run, entry, demoTime, thrower) ==
  LET call == [order |-> entry.order, fxTime |-> demoTime - entry.startTime,
               demoTime |-> demoTime]
  IN IF run.threw THEN run
     ELSE [calls |-> Append(run.calls, call), warns |-> run.warns,
           threw |-> (entry.name = thrower)]

\* one iteration of doFrame's second loop: the call is logged, and an
\* exception of the effect (an Error object: the effects raise nothing else)
\* is caught and logged by console.warn
ExecuteEntry(run, entry, demoTime, thrower) ==
  LET call == [order |-> entry.order, fxTime |-> demoTime - entry.startTime,
               demoTime |-> demoTime]
  IN IF run.threw THEN run
     ELSE IF entry.name = thrower
          THEN [calls |-> Append(run.calls, call),
                warns |-> Append(run.warns, entry.name), threw |-> FALSE]
          ELSE [calls |-> Append(run.calls, call),
                warns |-> run.warns, threw |-> FALSE]

RECURSIVE ExecuteAll(_, _, _)
ExecuteAll(active, demoTime, thrower) ==
  IF active = <<>> THEN [calls |-> <<>>, warns |-> <<>>, threw |-> FALSE]
  ELSE ExecuteEntry(ExecuteAll(SubSeq(active, 1, Len(active) - 1), demoTime, thrower),
                    active[Len(active)], demoTime, thrower)

\* DemoManager.doFrame(demoTime) on the list `list`
RunFrame(list, demoTime, thrower) ==
  ExecuteAll(SortActive(SelectActive(list, demoTime)), demoTime, thrower)

ClearFrame ==
  /\ frameTime' = NoFrame
  /\ frameCalls' = <<>>
  /\ frameWarns' = <<>>
  /\ frameThrower' = NoThrower
  /\ frameThrew' = FALSE

RecordFrame(list, demoTime, thrower) ==
  LET run == RunFrame(list, demoTime, thrower)
  IN /\ frameTime' = demoTime
     /\ frameCalls' = run.calls
     /\ frameWarns' = run.warns
     /\ frameThrower' = thrower
     /\ frameThrew' = run.threw

\* which effect (by name) raises an Error from its doFrame in a given frame
Throwers == {NoThrower} \cup EntryNames

\* the call record: the operation, the name and parameters of a re-timing,
\* the list index of a toggled entry
Call(op, name, start, end, priority, index) ==
  [op |-> op, name |-> name, start |-> start, end |-> end, priority |-> priority,
   index |-> index]
NoCall == Call("new", "", <<>>, <<>>, <<>>, 0)

\* DemoManager.addFX
AddFX(startTime, endTime, priority, name) ==
  /\ Len(effects) < MaxEffects
  /\ effects' = Append(effects, DemoFXEntry(startTime, endTime, priority, name, Len(effects)))
  /\ lastCall' = Call("addFX", name, <<startTime>>, <<endTime>>, <<priority>>, 0)
  /\ ClearFrame
  /\ UNCHANGED <<readerVars, ptaVars, interpVars, mainVars>>

\* mutant: the last entry of that name instead of the first
FindLastByName(list, name) ==
  IF \E i \in 1..Len(list) : list[i].name = name
  THEN CHOOSE i \in 1..Len(list) :
         /\ list[i].name = name
         /\ \A j \in (i + 1)..Len(list) : list[j].name # name
  ELSE 0

\* Array.prototype.find(e => e.name === name): index of the first match, 0 if none
FindByName(list, name) ==
  IF \E i \in 1..Len(list) : list[i].name = name
  THEN CHOOSE i \in 1..Len(list) :
         /\ list[i].name = name
         /\ \A j \in 1..(i - 1) : list[j].name # name
  ELSE 0

\* a || b on an optional numeric parameter: absent and 0 are falsy
OrElse(p, old) == IF p = <<>> \/ p[1] = 0 THEN old ELSE p[1]
\* a ?? b: only an absent parameter falls through
Coalesce(p, old) == IF p = <<>> THEN old ELSE p[1]

\* DemoManager._updateFXTiming(name, params)
UpdateFXTiming(name, pStart, pEnd, pPriority) ==
  LET i == FindByName(effects, name)
  IN /\ effects' =
          IF i = 0 THEN effects
          ELSE [effects EXCEPT ![i] =
                  [@ EXCEPT !.startTime = OrElse(pStart, @),
                            !.endTime = OrElse(pEnd, @),
                            !.priority = Coalesce(pPriority, @)]]
     /\ lastCall' = Call("_updateFXTiming", name, pStart, pEnd, pPriority, 0)
     /\ ClearFrame
     /\ UNCHANGED <<readerVars, ptaVars, interpVars, mainVars>>

\* mutant: the flag set instead of flipped
ToggleSetsDisabled(list, i) == [list EXCEPT ![i].disabled = TRUE]

\* `entry.disabled = !entry.disabled` on the entry at list index i
Toggle(list, i) == [list EXCEPT ![i].disabled = ~@]

\* debug overlay onToggleEffect(entry): flips the flag and, while paused,
\* renders one frame at the music position t
ToggleEffect(i, isRunning, t, thrower) ==
  /\ i \in 1..Len(effects)
  /\ effects' = Toggle(effects, i)
  /\ lastCall' = Call("onToggleEffect", effects[i].name, <<>>, <<>>, <<>>, i)
  /\ IF isRunning
     THEN t = 0 /\ thrower = NoThrower /\ ClearFrame
     ELSE RecordFrame(effects', t, thrower)
  /\ UNCHANGED <<readerVars, ptaVars, interpVars, mainVars>>

\* DemoManager.doFrame(demoTime), called by the frame loop
DoFrame(demoTime, thrower) ==
  /\ effects' = effects
  /\ lastCall' = Call("doFrame", "", <<>>, <<>>, <<>>, 0)
  /\ RecordFrame(effects, demoTime, thrower)
  /\ UNCHANGED <<readerVars, ptaVars, interpVars, mainVars>>

TimelineInit ==
  /\ effects = <<>>
  /\ frameTime = NoFrame
  /\ frameCalls = <<>>
  /\ frameWarns = <<>>
  /\ frameThrower = NoThrower
  /\ frameThrew = FALSE
  /\ lastCall = NoCall

TimelineNext ==
  \/ \E s \in StartTimes, e \in EndTimes, p \in Priorities, n \in EntryNames :
       AddFX(s, e, p, n)
  \/ \E n \in EntryNames \cup {"none"}, s \in Opt(StartTimes), e \in Opt(EndTimes),
        p \in Opt(Priorities) :
       UpdateFXTiming(n, s, e, p)
  \/ \E i \in 1..MaxEffects, r \in BOOLEAN, t \in ClockTimes, th \in Throwers :
       ToggleEffect(i, r, t, th)
  \/ \E t \in ClockTimes, th \in Throwers : DoFrame(t, th)


\* ------------------------------------------------------------------------
\* The registered timeline (registerAllEffects)
\* ------------------------------------------------------------------------
\* the dm.addFX calls of registerAllEffects in call order, loops unrolled:
\* startTime, endTime, priority, name
Registrations ==
  <<<<1800, 2200, 3, "TelevisionStart1">>,
    <<2790, 2920, 3, "TelevisionStart2">>,
    <<3000, 3200, 3, "TelevisionStart3">>,
    <<4150, 4450, 3, "TelevisionStart4">>,
    <<4900, 10000, 2, "Arrows1">>,
    <<10000, 12000, 2, "Arrows2">>,
    <<12000, 16100, 2, "Arrows3">>,
    <<14100, 16100, 3, "Arrows Transition Capture">>,
    <<14100, 16100, 8, "Arrows Transition">>,
    <<14100, 17500, 6, "Particle Steam sph1">>,
    <<16500, 24900, 11, "Particle Steam sph2">>,
    <<23900, 27000, 16, "Particle Steam sph3">>,
    <<26000, 29500, 21, "Particle Steam sph4">>,
    <<28500, 32300, 26, "Particle Steam sph5">>,
    <<31300, 36700, 31, "Particle Steam sph6">>,
    <<14100, 17500, 7, "Particled spheres 1">>,
    <<16500, 24900, 10, "Particled spheres 2">>,
    <<23900, 27000, 15, "Particled spheres 3">>,
    <<26000, 29500, 20, "Particled spheres 4">>,
    <<28500, 32300, 25, "Particled spheres 5">>,
    <<31300, 36700, 30, "Particled spheres 6">>,
    <<19200, 23500, 0, "Viewport int balls1">>,
    <<19200, 23500, 12, "BG Distort Balls">>,
    <<29500, 31300, 0, "Viewport int balls2">>,
    <<29500, 31300, 27, "Radial Blur Balls">>,
    <<36100, 36700, 0, "Viewport int Spike">>,
    <<36100, 36700, 31, "Transition Spike Capture">>,
    <<36100, 36700, 36, "Transition Spike">>,
    <<36100, 51000, 32, "pBGLayer1Spike">>,
    <<36100, 51000, 34, "Spike">>,
    <<36100, 51000, 35, "Pulsating Img 1">>,
    <<48050, 50000, 34, "GlowT">>,
    <<48211, 50000, 34, "GlowH">>,
    <<48211, 50000, 34, "GlowI">>,
    <<48719, 50000, 34, "GlowS">>,
    <<48873, 50000, 34, "GlowW">>,
    <<48873, 50000, 34, "GlowA">>,
    <<49370, 50000, 34, "GlowY">>,
    <<49516, 50000, 34, "Glow Arrow">>,
    <<50000, 51000, 0, "Viewport int Expl">>,
    <<50000, 51000, 36, "Transition Expl Capture">>,
    <<50000, 51000, 41, "Transition Expl">>,
    <<50000, 64000, 39, "Mamut Background">>,
    <<50000, 64000, 40, "Mamut">>,
    <<64000, 71000, 42, "Bumped flareobj bg">>,
    <<64000, 71000, 43, "Bump scroll">>,
    <<64000, 71000, 45, "Bumped flare object">>,
    <<71000, 85100, 3, "Classical BG1">>,
    <<71000, 85100, 4, "Classical BG2">>,
    <<71000, 85100, 5, "Classical BG3">>,
    <<71000, 85100, 6, "Hairy object">>,
    <<71000, 77000, 16, "GFX">>,
    <<72000, 78000, 17, "Tekno">>,
    <<78000, 84000, 16, "Music">>,
    <<79000, 85000, 17, "Wonder">>,
    <<84350, 84750, 27, "TW japo1">>,
    <<84750, 85150, 27, "TW japo2">>,
    <<85150, 90150, 66, "Code">>,
    <<86150, 92150, 67, "Ithaqua">>,
    <<85150, 108000, 57, "Radial blur lyrics">>,
    <<85150, 108000, 0, "Viewport lyrics">>,
    <<92000, 95000, 27, "Lyric1">>,
    <<93000, 96000, 27, "Lyric2">>,
    <<93500, 96500, 27, "Lyric3">>,
    <<95000, 98000, 27, "Lyric4">>,
    <<96000, 99000, 27, "Lyric5">>,
    <<97000, 100000, 27, "Lyric6">>,
    <<98000, 101000, 27, "Lyric7">>,
    <<99000, 102000, 27, "Lyric8">>,
    <<101000, 104000, 27, "Lyric9">>,
    <<102000, 105000, 27, "Lyric10">>,
    <<103000, 106000, 27, "Lyric11">>,
    <<104000, 107000, 27, "Lyric12">>,
    <<104000, 108000, 27, "Pulsating this way">>,
    <<108000, 124000, 6, "Euskal 10 Circles">>,
    <<122000, 124000, 7, "Circles Transition Capture">>,
    <<122000, 124000, 11, "Circles Transition">>,
    <<122000, 129400, 10, "Calamares1">>,
    <<128900, 136400, 15, "Calamares2">>,
    <<135900, 143400, 20, "Calamares3">>,
    <<142900, 150800, 25, "Calamares4">>,
    <<122000, 129400, 11, "Particle Steam Cal 1">>,
    <<128900, 136400, 16, "Particle Steam Cal 2">>,
    <<135900, 143400, 21, "Particle Steam Cal 3">>,
    <<142900, 150800, 26, "Particle Steam Cal 4">>,
    <<124000, 129000, 35, "Greet1">>,
    <<124000, 129000, 35, "Greet2">>,
    <<124000, 129000, 35, "Greet3">>,
    <<124000, 129000, 35, "Greet4">>,
    <<124000, 129000, 35, "Greet5">>,
    <<129000, 134000, 35, "Greet6">>,
    <<129000, 134000, 35, "Greet7">>,
    <<129000, 134000, 35, "Greet8">>,
    <<129000, 134000, 35, "Greet9">>,
    <<134000, 139000, 35, "Respect1">>,
    <<134000, 139000, 35, "Respect2">>,
    <<134000, 139000, 35, "Respect3">>,
    <<134000, 139000, 35, "Respect4">>,
    <<134000, 139000, 35, "Respect5">>,
    <<139000, 144000, 35, "Respect6">>,
    <<139000, 144000, 35, "Respect7">>,
    <<139000, 144000, 35, "Respect8">>,
    <<139000, 144000, 35, "Respect9">>,
    <<144250, 144650, 40, "TelevisionF1">>,
    <<145500, 145750, 40, "TelevisionF2">>,
    <<146350, 146450, 40, "TelevisionF3">>,
    <<147450, 147550, 40, "TelevisionF4">>,
    <<148250, 148550, 40, "TelevisionF5">>,
    <<149350, 149650, 40, "TelevisionF6">>,
    <<150800, 172000, 40, "TelevisionF7">>,
    <<146900, 172000, 0, "Viewport tv">>,
    <<160000, 168000, 43, "Stravaganza final">>,
    <<162000, 168000, 43, "EP2002">>,
    <<146900, 172000, 42, "Final Screen to obj">>>>

\* DemoManager.effects after these calls: each entry's order is the length
\* of the list at its registration
RegisteredEffects ==
  [i \in 1..Len(Registrations) |->
     DemoFXEntry(Registrations[i][1], Registrations[i][2], Registrations[i][3],
                 Registrations[i][4], i - 1)]

\* registerAllEffects(dm), called once on the new DemoManager
RegisterAllEffects ==
  /\ effects = <<>>
  /\ lastCall = NoCall
  /\ effects' = RegisteredEffects
  /\ lastCall' = Call("registerAllEffects", "", <<>>, <<>>, <<>>, 0)
  /\ ClearFrame
  /\ UNCHANGED <<readerVars, ptaVars, interpVars, mainVars>>

\* clock times of the frames: the set of invoked entries and their order
\* change only where a window starts or ends, so each boundary is taken
\* with the millisecond before and after it
DemoTimes ==
  UNION {{Registrations[i][1] + d, Registrations[i][2] + d} :
           i \in 1..Len(Registrations), d \in {0 - 1, 0, 1}}

\* a capture pass may raise from its doFrame
DemoThrowers == {NoThrower, "Transition Spike Capture"}

DemoNext ==
  \/ RegisterAllEffects
  \/ \E t \in DemoTimes, th \in DemoThrowers : DoFrame(t, th)


\* ------------------------------------------------------------------------
\* BinaryReader (utils/BinaryReader.js)
\* ------------------------------------------------------------------------
MaxBufLen == 8
\* byte values of the bounded buffers: NUL and the letter 'A'
BufferBytes == {0, 65}


\* result of one read: the value, or a raised error, and the offset left behind
Returned(val, off) == [ok |-> TRUE, val |-> val, offset |-> off]
Raised(off) == [ok |-> FALSE, val |-> <<>>, offset |-> off]

\* DataView.getXxx(byteOffset): RangeError unless the whole field is inside
ViewInBounds(buf, off, width) == off >= 0 /\ off + width <= Len(buf)

\* new Uint8Array(buffer, byteOffset, length): RangeError unless it fits
ArrayInBounds(buf, off, length) == off >= 0 /\ length >= 0 /\ off + length <= Len(buf)

BytesAt(buf, off, n) == [i \in 1..n |-> buf[off + i]]

\* little-endian integer decoding (sums stay below 2^31 for the bounded bytes)
RECURSIVE LittleEndian(_)
LittleEndian(bytes) ==
  IF bytes = <<>> THEN 0
  ELSE bytes[1] + 256 * LittleEndian(SubSeq(bytes, 2, Len(bytes)))

Pow256(n) == IF n = 1 THEN 256 ELSE IF n = 2 THEN 65536 ELSE 16777216

\* two's complement reading of a little-endian field of 1, 2 or 4 bytes
SignedLittleEndian(bytes) ==
  LET n == Len(bytes)
      top == bytes[n]
      low == LittleEndian(SubSeq(bytes, 1, n - 1))
  IN IF top < 128 THEN LittleEndian(bytes)
     ELSE IF n = 1 THEN top - 256
     ELSE (top - 256) * Pow256(n - 1) + low

\* mutant: the offset is advanced before the DataView access
FixedReadAdvanceFirst(buf, off, width, signed, float) ==
  IF ViewInBounds(buf, off, width)
  THEN Returned(IF float THEN BytesAt(buf, off, width)
                ELSE IF signed THEN <<SignedLittleEndian(BytesAt(buf, off, width))>>
                ELSE <<LittleEndian(BytesAt(buf, off, width))>>, off + width)
  ELSE Raised(off + width)

\* the common shape of readUint8 .. readDouble: `val = view.getXxx(offset,
\* true); offset += width; return val`.  A float is kept as its bit pattern.
FixedRead(buf, off, width, signed, float) ==
  IF ViewInBounds(buf, off, width)
  THEN Returned(IF float THEN BytesAt(buf, off, width)
                ELSE IF signed THEN <<SignedLittleEndian(BytesAt(buf, off, width))>>
                ELSE <<LittleEndian(BytesAt(buf, off, width))>>, off + width)
  ELSE Raised(off)

readUint8(buf, off) == FixedRead(buf, off, 1, FALSE, FALSE)
readInt8(buf, off) == FixedRead(buf, off, 1, TRUE, FALSE)
readUint16(buf, off) == FixedRead(buf, off, 2, FALSE, FALSE)
readInt16(buf, off) == FixedRead(buf, off, 2, TRUE, FALSE)
readUint32(buf, off) == FixedRead(buf, off, 4, FALSE, FALSE)
readInt32(buf, off) == FixedRead(buf, off, 4, TRUE, FALSE)
readFloat(buf, off) == FixedRead(buf, off, 4, FALSE, TRUE)
readDouble(buf, off) == FixedRead(buf, off, 8, FALSE, TRUE)

\* bytes.indexOf(0), with the `end === -1` case folded in: the prefix before
\* the first NUL
RECURSIVE UpToNul(_)
UpToNul(bytes) ==
  IF bytes = <<>> \/ bytes[1] = 0 THEN <<>>
  ELSE <<bytes[1]>> \o UpToNul(SubSeq(bytes, 2, Len(bytes)))

\* readString(length): a string is the sequence of its character codes
readString(buf, off, length) ==
  IF ArrayInBounds(buf, off, length)
  THEN Returned(UpToNul(BytesAt(buf, off, length)), off + length)
  ELSE Raised(off)

\* the scanning loop of readCString: first offset >= off that is at the end
\* of the buffer or holds a NUL
RECURSIVE ScanCString(_, _)
ScanCString(buf, off) ==
  IF off < Len(buf) /\ buf[off + 1] # 0 THEN ScanCString(buf, off + 1) ELSE off

\* readCString()
readCString(buf, off) ==
  IF off < 0 THEN Raised(off)
  ELSE LET stop == ScanCString(buf, off)
       IN IF ArrayInBounds(buf, off, stop - off)
          THEN Returned(BytesAt(buf, off, stop - off), stop + 1)
          ELSE Raised(stop)

\* readChunkId()
readChunkId(buf, off) == readString(buf, off, 4)

\* the loop of readFloatArray / readUint32Array: count reads of 4 bytes; an
\* element that fails raises with the offset left after the elements read
RECURSIVE ReadWords(_, _, _, _, _)

\* the element w just read is stored and the loop goes on, or its error ends it
StoreWord(buf, w, count, float, acc) ==
  IF w.ok THEN ReadWords(buf, w.offset, count - 1, float, Append(acc, w.val))
  ELSE Raised(w.offset)

ReadWords(buf, off, count, float, acc) ==
  IF count <= 0 THEN Returned(acc, off)
  ELSE StoreWord(buf, FixedRead(buf, off, 4, FALSE, float), count, float, acc)

\* readFloatArray(count): new Float32Array(count) raises for a negative count
readFloatArray(buf, off, count) ==
  IF count < 0 THEN Raised(off) ELSE ReadWords(buf, off, count, TRUE, <<>>)

\* readUint32Array(count)
readUint32Array(buf, off, count) ==
  IF count < 0 THEN Raised(off) ELSE ReadWords(buf, off, count, FALSE, <<>>)

\* readBytes(count)
readBytes(buf, off, count) ==
  IF ArrayInBounds(buf, off, count)
  THEN Returned(BytesAt(buf, off, count), off + count)
  ELSE Raised(off)

\* eof() and remaining()
eof(buf, off) == off >= Len(buf)
remaining(buf, off) == Len(buf) - off

\* one call of a read method on the reader of the state
ReaderCall(op, arg, res) ==
  /\ offset' = res.offset
  /\ readOp' = op
  /\ readArg' = arg
  /\ readFrom' = offset
  /\ readOk' = res.ok
  /\ readVal' = res.val
  /\ buffer' = buffer

ReadUint8 ==
  /\ ReaderCall("readUint8", 0, readUint8(buffer, offset))
  /\ UNCHANGED <<timelineVars, ptaVars, interpVars, mainVars>>

ReadInt8 ==
  /\ ReaderCall("readInt8", 0, readInt8(buffer, offset))
  /\ UNCHANGED <<timelineVars, ptaVars, interpVars, mainVars>>

ReadUint16 ==
  /\ ReaderCall("readUint16", 0, readUint16(buffer, offset))
  /\ UNCHANGED <<timelineVars, ptaVars, interpVars, mainVars>>

ReadInt16 ==
  /\ ReaderCall("readInt16", 0, readInt16(buffer, offset))
  /\ UNCHANGED <<timelineVars, ptaVars, interpVars, mainVars>>

ReadUint32 ==
  /\ ReaderCall("readUint32", 0, readUint32(buffer, offset))
  /\ UNCHANGED <<timelineVars, ptaVars, interpVars, mainVars>>

ReadInt32 ==
  /\ ReaderCall("readInt32", 0, readInt32(buffer, offset))
  /\ UNCHANGED <<timelineVars, ptaVars, interpVars, mainVars>>

ReadFloat ==
  /\ ReaderCall("readFloat", 0, readFloat(buffer, offset))
  /\ UNCHANGED <<timelineVars, ptaVars, interpVars, mainVars>>

ReadDouble ==
  /\ ReaderCall("readDouble", 0, readDouble(buffer, offset))
  /\ UNCHANGED <<timelineVars, ptaVars, interpVars, mainVars>>

ReadString(length) ==
  /\ ReaderCall("readString", length, readString(buffer, offset, length))
  /\ UNCHANGED <<timelineVars, ptaVars, interpVars, mainVars>>

ReadCString ==
  /\ ReaderCall("readCString", 0, readCString(buffer, offset))
  /\ UNCHANGED <<timelineVars, ptaVars, interpVars, mainVars>>

ReadChunkId ==
  /\ ReaderCall("readChunkId", 0, readChunkId(buffer, offset))
  /\ UNCHANGED <<timelineVars, ptaVars, interpVars, mainVars>>

ReadFloatArray(count) ==
  /\ ReaderCall("readFloatArray", count, readFloatArray(buffer, offset, count))
  /\ UNCHANGED <<timelineVars, ptaVars, interpVars, mainVars>>

ReadUint32Array(count) ==
  /\ ReaderCall("readUint32Array", count, readUint32Array(buffer, offset, count))
  /\ UNCHANGED <<timelineVars, ptaVars, interpVars, mainVars>>

ReadBytes(count) ==
  /\ ReaderCall("readBytes", count, readBytes(buffer, offset, count))
  /\ UNCHANGED <<timelineVars, ptaVars, interpVars, mainVars>>

\* seek(offset) and skip(bytes): no bounds check
Seek(target) ==
  /\ ReaderCall("seek", target, Returned(<<>>, target))
  /\ UNCHANGED <<timelineVars, ptaVars, interpVars, mainVars>>

Skip(bytes) ==
  /\ offset + bytes <= MaxBufLen + 1
  /\ ReaderCall("skip", bytes, Returned(<<>>, offset + bytes))
  /\ UNCHANGED <<timelineVars, ptaVars, interpVars, mainVars>>

RECURSIVE BuffersOfLen(_)
BuffersOfLen(n) ==
  IF n = 0 THEN {<<>>}
  ELSE {Append(b, x) : b \in BuffersOfLen(n - 1), x \in BufferBytes}

\* new BinaryReader(buffer)
ReaderInit ==
  /\ buffer \in UNION {BuffersOfLen(n) : n \in 0..MaxBufLen}
  /\ offset = 0
  /\ readOp = "new"
  /\ readArg = 0
  /\ readFrom = 0
  /\ readOk = TRUE
  /\ readVal = <<>>

ReaderNext ==
  \/ ReadUint8 \/ ReadInt8 \/ ReadUint16 \/ ReadInt16
  \/ ReadUint32 \/ ReadInt32 \/ ReadFloat \/ ReadDouble
  \/ \E n \in 0..2 : ReadString(n)
  \/ ReadCString
  \/ ReadChunkId
  \/ \E n \in 0..2 : ReadFloatArray(n)
  \/ \E n \in 0..2 : ReadUint32Array(n)
  \/ \E n \in 0..2 : ReadBytes(n)
  \/ \E o \in 0..(MaxBufLen + 1) : Seek(o)
  \/ \E n \in 1..2 : Skip(n)

\* ------------------------------------------------------------------------
\* PTA scene loader (PtaFileLoader.js)
\* ------------------------------------------------------------------------
\* header flags
FILE_GLOBALINFO == 1
FILE_MATERIALS == 2
\* object / helper / bone property flags
OBJ_MATERIAL == 1
OBJ_POSKEYS == 2
OBJ_SCLKEYS == 4
OBJ_ROTKEYS == 8
OBJ_DEFORMABLE == 16
\* camera property flags
CAM_ANIMSETTINGS == 1
CAM_POSKEYS == 2
CAM_SCLKEYS == 4
CAM_ROTKEYS == 8
TCAM_POSKEYS == 16
TCAM_SCLKEYS == 32
TCAM_ROTKEYS == 64
\* light property flags
LIGHT_ANIMSETTINGS == 1
LIGHT_POSKEYS == 2
LIGHT_SCLKEYS == 4
LIGHT_ROTKEYS == 8
TLIGHT_POSKEYS == 16
TLIGHT_SCLKEYS == 32
TLIGHT_ROTKEYS == 64
\* material property flags
MAT_HASTEX1 == 1
MAT_TEX1SPH == 2
MAT_HASTEX2 == 256
MAT_TEX2SPH == 512
\* UV channel flags
UVCHANNEL_1 == 1
UVCHANNEL_2 == 2

\* `flags & mask` for a one-bit mask, on a 32-bit two's complement value
HasFlag(flags, mask) == (flags \div mask) % 2 = 1

\* chunk tags, as the character codes readChunkId returns
TagGI == <<71, 73, 95, 95>>
TagEndGI == <<95, 95, 71, 73>>
TagML == <<77, 76, 95, 95>>
TagEndML == <<95, 95, 77, 76>>
TagGO == <<71, 79, 95, 95>>
TagEndGO == <<95, 95, 71, 79>>
TagCO == <<67, 79, 95, 95>>
TagEndCO == <<95, 95, 67, 79>>
TagLO == <<76, 79, 95, 95>>
TagEndLO == <<95, 95, 76, 79>>
TagHO == <<72, 79, 95, 95>>
TagEndHO == <<95, 95, 72, 79>>
TagPTA == <<95, 80, 84, 65>>

\* offsets fixed by the format
HeaderSize == 1024
GlobalInfoEnd == 2048

\* the number read by r in place of its one-element tuple
Scalar(r) == IF r.ok THEN Returned(r.val[1], r.offset) ELSE r

\* stored w, x, y, z; kept as Quaternion(x, y, z, w)
Quaternion(r) ==
  IF r.ok THEN Returned(<<r.val[2], r.val[3], r.val[4], r.val[1]>>, r.offset) ELSE r

\* `count` consecutive readInt32() calls
RECURSIVE ReadInts(_, _, _, _)
StoreInt(buf, r, count, acc) ==
  IF r.ok THEN ReadInts(buf, r.offset, count - 1, Append(acc, r.val[1]))
  ELSE Raised(r.offset)

ReadInts(buf, off, count, acc) ==
  IF count <= 0 THEN Returned(acc, off)
  ELSE StoreInt(buf, readInt32(buf, off), count, acc)

\* one field of a chunk, by kind; integers are returned as numbers, floats
\* as bit patterns, vectors as sequences of floats
ReadField(buf, off, kind) ==
  CASE kind = "i32" -> Scalar(readInt32(buf, off))
    [] kind = "u8" -> Scalar(readUint8(buf, off))
    [] kind = "f32" -> readFloat(buf, off)
    [] kind = "cstr" -> readCString(buf, off)
    [] kind = "tag" -> readChunkId(buf, off)
    [] kind = "vec2" -> ReadWords(buf, off, 2, TRUE, <<>>)
    [] kind = "vec3" -> ReadWords(buf, off, 3, TRUE, <<>>)
    [] kind = "mat" -> readFloatArray(buf, off, 16)
    [] kind = "quat" -> Quaternion(ReadWords(buf, off, 4, TRUE, <<>>))
    [] kind = "idx3" -> ReadInts(buf, off, 3, <<>>)

\* consecutive fields <<name, kind>> read into the record acc
RECURSIVE ReadFields(_, _, _, _)
StoreField(buf, r, fields, acc) ==
  IF r.ok
  THEN ReadFields(buf, r.offset, SubSeq(fields, 2, Len(fields)),
                  (fields[1][1] :> r.val) @@ acc)
  ELSE Raised(r.offset)

ReadFields(buf, off, fields, acc) ==
  IF fields = <<>> THEN Returned(acc, off)
  ELSE StoreField(buf, ReadField(buf, off, fields[1][2]), fields, acc)

\* `for (i = 0; i < count; i++) push(read one field)`
RECURSIVE ReadArray(_, _, _, _, _)
StoreElement(buf, r, count, kind, acc) ==
  IF r.ok THEN ReadArray(buf, r.offset, count - 1, kind, Append(acc, r.val))
  ELSE Raised(r.offset)

ReadArray(buf, off, count, kind, acc) ==
  IF count <= 0 THEN Returned(acc, off)
  ELSE StoreElement(buf, ReadField(buf, off, kind), count, kind, acc)

\* `for (i = 0; i < count; i++) push({ fields })`
RECURSIVE ReadRecords(_, _, _, _, _)
StoreRecord(buf, r, count, fields, acc) ==
  IF r.ok THEN ReadRecords(buf, r.offset, count - 1, fields, Append(acc, r.val))
  ELSE Raised(r.offset)

ReadRecords(buf, off, count, fields, acc) ==
  IF count <= 0 THEN Returned(acc, off)
  ELSE StoreRecord(buf, ReadFields(buf, off, fields, [t |-> <<>>]), count, fields, acc)

\* A chunk reader is a chain of stages. A stage takes the partial object
\* st.val and the offset st.offset left by the stage before it, and a stage
\* that raised ends the chain: every later stage passes the error on.

\* the partial object extended by the field `name` read by r
WithField(st, name, r) ==
  IF r.ok THEN Returned((name :> r.val) @@ st.val, r.offset) ELSE Raised(r.offset)

\* a field set without reading
WithValue(st, name, v) ==
  IF ~st.ok THEN st ELSE Returned((name :> v) @@ st.val, st.offset)

\* several fields read into the partial object
WithFields(buf, st, fields) ==
  IF ~st.ok THEN st ELSE ReadFields(buf, st.offset, fields, st.val)

\* `if (obj[flagField] & mask) { read fields }`
WithFieldsIf(buf, st, flagField, mask, fields) ==
  IF ~st.ok THEN st
  ELSE IF HasFlag(st.val[flagField], mask) THEN ReadFields(buf, st.offset, fields, st.val)
  ELSE st

\* `for (i = 0; i < obj[countField]; i++) obj[name].push(read kind)`
WithArray(buf, st, name, countField, kind) ==
  IF ~st.ok THEN st
  ELSE WithField(st, name, ReadArray(buf, st.offset, st.val[countField], kind, <<>>))

\* `obj[name] = []; if (obj[flagField] & mask) { the loop above }`
WithArrayIf(buf, st, name, countField, kind, flagField, mask) ==
  IF ~st.ok THEN st
  ELSE IF HasFlag(st.val[flagField], mask)
  THEN WithField(st, name, ReadArray(buf, st.offset, st.val[countField], kind, <<>>))
  ELSE Returned((name :> <<>>) @@ st.val, st.offset)

\* `if (obj.flags & mask) { obj[name] = count records of fields }`
WithRecordsIf(buf, st, name, count, fields, mask) ==
  IF ~st.ok THEN st
  ELSE IF HasFlag(st.val.flags, mask)
  THEN WithField(st, name, ReadRecords(buf, st.offset, count, fields, <<>>))
  ELSE st

readPosKeys(buf, off, count) ==
  ReadRecords(buf, off, count, <<<<"t", "f32">>, <<"pos", "vec3">>>>, <<>>)

readSclKeys(buf, off, count) ==
  ReadRecords(buf, off, count,
              <<<<"t", "f32">>, <<"scale", "vec3">>, <<"axes", "quat">>>>, <<>>)

readRotKeys(buf, off, count) ==
  ReadRecords(buf, off, count, <<<<"t", "f32">>, <<"quat", "quat">>>>, <<>>)

\* `obj.posKeys = []; if (obj.flags & bit) obj.posKeys = readPosKeys(...)`
WithPosKeys(buf, st, header, bit, name) ==
  IF ~st.ok THEN st
  ELSE IF HasFlag(st.val.flags, bit)
  THEN WithField(st, name, readPosKeys(buf, st.offset, header.numPosKeys))
  ELSE Returned((name :> <<>>) @@ st.val, st.offset)

\* mutant: the scale track is read with the number of position samples
WithSclKeysPosCount(buf, st, header, bit, name) ==
  IF ~st.ok THEN st
  ELSE IF HasFlag(st.val.flags, bit)
  THEN WithField(st, name, readSclKeys(buf, st.offset, header.numPosKeys))
  ELSE Returned((name :> <<>>) @@ st.val, st.offset)

WithSclKeys(buf, st, header, bit, name) ==
  IF ~st.ok THEN st
  ELSE IF HasFlag(st.val.flags, bit)
  THEN WithField(st, name, readSclKeys(buf, st.offset, header.numSclKeys))
  ELSE Returned((name :> <<>>) @@ st.val, st.offset)

WithRotKeys(buf, st, header, bit, name) ==
  IF ~st.ok THEN st
  ELSE IF HasFlag(st.val.flags, bit)
  THEN WithField(st, name, readRotKeys(buf, st.offset, header.numRotKeys))
  ELSE Returned((name :> <<>>) @@ st.val, st.offset)

\* the flag-gated position / scale / rotation tracks of an object, bone,
\* helper, camera or light: each is read iff its bit is set, else stays []
ReadKeyTracks(buf, st, header, posBit, sclBit, rotBit, posName, sclName, rotName) ==
  WithRotKeys(buf,
    WithSclKeys(buf, WithPosKeys(buf, st, header, posBit, posName), header, sclBit,
                sclName),
    header, rotBit, rotName)

\* the material object built from the fields read
MaterialOf(st) ==
  IF ~st.ok THEN st
  ELSE Returned([name |-> st.val.name, flags |-> st.val.flags,
                 ambient |-> st.val.ambient, diffuse |-> st.val.diffuse,
                 specular |-> st.val.specular, shininess |-> st.val.shininess,
                 texture1 |-> st.val.texture1, texture2 |-> st.val.texture2,
                 \* MAT_2SIDES is 1 << 31, the sign bit
                 isTwoSided |-> st.val.flags < 0,
                 isBumpMap |-> HasFlag(st.val.flags, 1073741824),
                 tex1Spherical |-> HasFlag(st.val.flags, MAT_TEX1SPH),
                 tex2Spherical |-> HasFlag(st.val.flags, MAT_TEX2SPH),
                 subMaterials |-> st.val.subMaterials], st.offset)

\* readMaterial(reader), recursive over the sub-materials
RECURSIVE readMaterial(_, _)
RECURSIVE ReadMaterialList(_, _, _, _)
\* mutant: the sub-materials are read over but not kept
DroppedList(r) == IF r.ok THEN Returned(<<>>, r.offset) ELSE r
WithSubMaterialsDropped(buf, st) ==
  IF ~st.ok THEN st
  ELSE WithField(st, "subMaterials",
                 DroppedList(ReadMaterialList(buf, st.offset, st.val.numSubMaterials, <<>>)))

WithSubMaterials(buf, st) ==
  IF ~st.ok THEN st
  ELSE WithField(st, "subMaterials",
                 ReadMaterialList(buf, st.offset, st.val.numSubMaterials, <<>>))

readMaterial(buf, off) ==
  MaterialOf(
    WithSubMaterials(buf,
      WithFields(buf,
        WithFieldsIf(buf,
          WithFieldsIf(buf,
            ReadFields(buf, off,
              <<<<"name", "cstr">>, <<"flags", "i32">>, <<"ambient", "vec3">>,
                <<"diffuse", "vec3">>, <<"specular", "vec3">>, <<"shininess", "f32">>>>,
              [texture1 |-> <<"null">>, texture2 |-> <<"null">>]),
            "flags", MAT_HASTEX1, <<<<"texture1", "cstr">>>>),
          "flags", MAT_HASTEX2, <<<<"texture2", "cstr">>>>),
        <<<<"numSubMaterials", "i32">>>>)))

\* one more material pushed onto the list being read
PushMaterial(buf, r, count, acc) ==
  IF r.ok THEN ReadMaterialList(buf, r.offset, count - 1, Append(acc, r.val))
  ELSE Raised(r.offset)

\* `for (i = 0; i < count; i++) push(readMaterial(reader))`
ReadMaterialList(buf, off, count, acc) ==
  IF count <= 0 THEN Returned(acc, off) ELSE PushMaterial(buf, readMaterial(buf, off), count, acc)

\* the cursor moved behind r, the object unchanged
Advance(st, r) == IF r.ok THEN Returned(st.val, r.offset) ELSE Raised(r.offset)

\* a field read and dropped (reserved words)
Discard(buf, st, kind) ==
  IF ~st.ok THEN st ELSE Advance(st, ReadField(buf, st.offset, kind))

\* one bone record of readGeomObject
ReadBone(buf, off, header) ==
  ReadKeyTracks(buf,
    ReadFields(buf, off, <<<<"flags", "i32">>, <<"transformMatrix", "mat">>>>,
               [posKeys |-> <<>>]),
    header, OBJ_POSKEYS, OBJ_SCLKEYS, OBJ_ROTKEYS, "posKeys", "sclKeys", "rotKeys")

RECURSIVE ReadBones(_, _, _, _, _)
PushBone(buf, r, count, header, acc) ==
  IF r.ok THEN ReadBones(buf, r.offset, count - 1, header, Append(acc, r.val))
  ELSE Raised(r.offset)

ReadBones(buf, off, count, header, acc) ==
  IF count <= 0 THEN Returned(acc, off)
  ELSE PushBone(buf, ReadBone(buf, off, header), count, header, acc)

\* the linkage record built from the fields read
VertexLinkOf(st) ==
  IF ~st.ok THEN st
  ELSE Returned([localPositions |-> st.val.localPositions,
                 boneIndices |-> st.val.boneIndices, weights |-> st.val.weights],
                st.offset)

\* one per-vertex linkage record of readGeomObject
ReadVertexLink(buf, off) ==
  VertexLinkOf(
    WithArray(buf,
      WithArray(buf,
        WithArray(buf,
          ReadFields(buf, off, <<<<"numLinkedBones", "i32">>>>, [weights |-> <<>>]),
          "localPositions", "numLinkedBones", "vec3"),
        "boneIndices", "numLinkedBones", "i32"),
      "weights", "numLinkedBones", "f32"))

RECURSIVE ReadVertexLinks(_, _, _, _)
PushVertexLink(buf, r, count, acc) ==
  IF r.ok THEN ReadVertexLinks(buf, r.offset, count - 1, Append(acc, r.val))
  ELSE Raised(r.offset)

ReadVertexLinks(buf, off, count, acc) ==
  IF count <= 0 THEN Returned(acc, off)
  ELSE PushVertexLink(buf, ReadVertexLink(buf, off), count, acc)

\* `if (flags & OBJ_MATERIAL) { materialId, two reserved words }
\*  else { wireColor; materialId = -1 }`
WithMaterialOrColor(buf, st) ==
  IF ~st.ok THEN st
  ELSE IF HasFlag(st.val.flags, OBJ_MATERIAL)
  THEN Discard(buf, Discard(buf, WithFields(buf, st, <<<<"materialId", "i32">>>>), "i32"),
               "i32")
  ELSE WithValue(WithFields(buf, st, <<<<"wireColor", "vec3">>>>), "materialId", 0 - 1)

\* the per-vertex linkage that follows the bones
WithVertexLinks(buf, st) ==
  IF ~st.ok THEN st
  ELSE WithField(st, "vertexBoneData",
                 ReadVertexLinks(buf, st.offset, st.val.numVertices, <<>>))

\* `if (numBones > 0) { bones, vertexBoneData }`, nb being the read of numBones
WithBonesCounted(buf, st, header, nb) ==
  IF ~nb.ok THEN Raised(nb.offset)
  ELSE IF nb.val[1] > 0
  THEN WithVertexLinks(buf,
         WithField(st, "bones", ReadBones(buf, nb.offset, nb.val[1], header, <<>>)))
  ELSE Returned(("bones" :> <<>>) @@ st.val, nb.offset)

\* mutant: numBones read only when OBJ_DEFORMABLE is set
WithBonesIfDeformable(buf, st, header) ==
  IF ~st.ok THEN st
  ELSE IF HasFlag(st.val.flags, OBJ_DEFORMABLE)
  THEN WithBonesCounted(buf, st, header, readInt32(buf, st.offset))
  ELSE Returned(("bones" :> <<>>) @@ st.val, st.offset)

\* numBones is always read, whatever OBJ_DEFORMABLE says
WithBones(buf, st, header) ==
  IF ~st.ok THEN st ELSE WithBonesCounted(buf, st, header, readInt32(buf, st.offset))

\* readGeomObject up to the counts: name, user properties, flags, material
\* or wire colour, matrix and the seven counts
GeomHead(buf, off) ==
  WithFields(buf,
    WithMaterialOrColor(buf,
      ReadFields(buf, off,
        <<<<"name", "cstr">>, <<"userProps", "cstr">>, <<"flags", "i32">>>>,
        [vertexBoneData |-> <<"null">>])),
    <<<<"transformMatrix", "mat">>, <<"numVertices", "i32">>,
      <<"numVertexNormals", "i32">>, <<"numColorVertices", "i32">>,
      <<"numTextureVertices", "i32">>, <<"uvChannelFlags", "i32">>,
      <<"numEdgeFlags", "i32">>, <<"numFaces", "i32">>>>)

\* the mesh arrays: vertices, normals, colours, two uv sets, edge flags, faces
GeomMesh(buf, st) ==
  WithArray(buf,
    WithArray(buf,
      WithArrayIf(buf,
        WithArrayIf(buf,
          WithArray(buf,
            WithArray(buf,
              WithArray(buf, st, "vertices", "numVertices", "vec3"),
              "normals", "numVertexNormals", "vec3"),
            "colors", "numColorVertices", "vec3"),
          "uvs1", "numTextureVertices", "vec2", "uvChannelFlags", UVCHANNEL_1),
        "uvs2", "numTextureVertices", "vec2", "uvChannelFlags", UVCHANNEL_2),
      "edgeFlags", "numEdgeFlags", "u8"),
    "faces", "numFaces", "idx3")

\* readGeomObject(reader, header), after the GO__ tag
readGeomObject(buf, off, header) ==
  WithFields(buf,
    WithBones(buf,
      ReadKeyTracks(buf, GeomMesh(buf, GeomHead(buf, off)), header,
                    OBJ_POSKEYS, OBJ_SCLKEYS, OBJ_ROTKEYS,
                    "posKeys", "sclKeys", "rotKeys"),
      header),
    <<<<"endMarker", "tag">>>>)

\* `if (type === 2) targetMatrix = readMatrix4x4()`
WithTargetMatrix(buf, st) ==
  IF ~st.ok THEN st
  ELSE IF st.val.type = 2
  THEN ReadFields(buf, st.offset, <<<<"targetMatrix", "mat">>>>, st.val)
  ELSE st

\* name, user properties, type, flags, origin and (for a target camera or
\* light) target matrix
ReadOrigin(buf, off) ==
  WithTargetMatrix(buf,
    ReadFields(buf, off,
      <<<<"name", "cstr">>, <<"userProps", "cstr">>, <<"type", "i32">>,
        <<"flags", "i32">>, <<"originMatrix", "mat">>>>,
      [settingsKeys |-> <<>>]))

\* the node tracks, the target tracks and the end marker of a camera or light
WithTargetTracks(buf, st, header, posBit, sclBit, rotBit, tPosBit, tSclBit, tRotBit) ==
  WithFields(buf,
    ReadKeyTracks(buf,
      ReadKeyTracks(buf, st, header, posBit, sclBit, rotBit,
                    "posKeys", "sclKeys", "rotKeys"),
      header, tPosBit, tSclBit, tRotBit,
      "targetPosKeys", "targetSclKeys", "targetRotKeys"),
    <<<<"endMarker", "tag">>>>)

\* readCamera(reader, header), after the CO__ tag
readCamera(buf, off, header) ==
  WithTargetTracks(buf,
    WithRecordsIf(buf,
      WithFields(buf, ReadOrigin(buf, off),
                 <<<<"near", "f32">>, <<"far", "f32">>, <<"fov", "f32">>>>),
      "settingsKeys", header.numCamKeys,
      <<<<"t", "f32">>, <<"near", "f32">>, <<"far", "f32">>, <<"fov", "f32">>>>,
      CAM_ANIMSETTINGS),
    header, CAM_POSKEYS, CAM_SCLKEYS, CAM_ROTKEYS, TCAM_POSKEYS, TCAM_SCLKEYS,
    TCAM_ROTKEYS)

\* readLight(reader, header), after the LO__ tag
readLight(buf, off, header) ==
  WithTargetTracks(buf,
    WithRecordsIf(buf,
      WithFields(buf, ReadOrigin(buf, off),
                 <<<<"color", "vec3">>, <<"intensity", "f32">>, <<"falloff", "f32">>>>),
      "settingsKeys", header.numLightKeys,
      <<<<"t", "f32">>, <<"color", "vec3">>, <<"intensity", "f32">>,
        <<"falloff", "f32">>>>,
      LIGHT_ANIMSETTINGS),
    header, LIGHT_POSKEYS, LIGHT_SCLKEYS, LIGHT_ROTKEYS, TLIGHT_POSKEYS, TLIGHT_SCLKEYS,
    TLIGHT_ROTKEYS)

\* readHelper(reader, header), after the HO__ tag
readHelper(buf, off, header) ==
  WithFields(buf,
    ReadKeyTracks(buf,
      ReadFields(buf, off,
        <<<<"name", "cstr">>, <<"userProps", "cstr">>, <<"flags", "i32">>,
          <<"transformMatrix", "mat">>, <<"boundingBoxMin", "vec3">>,
          <<"boundingBoxMax", "vec3">>>>,
        [posKeys |-> <<>>]),
      header, OBJ_POSKEYS, OBJ_SCLKEYS, OBJ_ROTKEYS, "posKeys", "sclKeys", "rotKeys"),
    <<<<"endMarker", "tag">>>>)

\* new PtaScene()
PtaScene ==
  [header |-> <<"null">>, globalInfo |-> <<"null">>, materials |-> <<>>,
   objects |-> <<>>, cameras |-> <<>>, lights |-> <<>>, helpers |-> <<>>,
   animStartTime |-> <<>>, animEndTime |-> <<>>]

\* outcome of loadPtaFile: the promise resolves with a scene (scene = <<s>>)
\* or rejects (scene = <<>>); warns are the console.warn lines, sawEndTag
\* tells whether the chunk loop was left through the _PTA tag
Loaded(scene, off, warns, sawEndTag) ==
  [ok |-> TRUE, scene |-> <<scene>>, offset |-> off, warns |-> warns,
   sawEndTag |-> sawEndTag]
Rejected(off, warns) ==
  [ok |-> FALSE, scene |-> <<>>, offset |-> off, warns |-> warns, sawEndTag |-> FALSE]

\* the warning of a chunk reader whose trailing tag is not the expected one
MarkerWarn(warns, got, expected, what) ==
  IF got # expected THEN Append(warns, <<"end marker", what>>) ELSE warns

\* the `while (!reader.eof())` loop of loadPtaFile
RECURSIVE ReadChunks(_, _, _, _, _)

\* mutant: a chunk whose trailing tag is not the expected one ends the load
PushChunkStrict(buf, o, header, scene, warns, list, endTag, what) ==
  IF ~o.ok \/ o.val.endMarker # endTag THEN Rejected(o.offset, warns)
  ELSE ReadChunks(buf, o.offset, header, [scene EXCEPT ![list] = Append(@, o.val)], warns)

\* `scene[list].push(o)` for the chunk o just read, then the next chunk
PushChunk(buf, o, header, scene, warns, list, endTag, what) ==
  IF ~o.ok THEN Rejected(o.offset, warns)
  ELSE ReadChunks(buf, o.offset, header, [scene EXCEPT ![list] = Append(@, o.val)],
                  MarkerWarn(warns, o.val.endMarker, endTag, what))

\* the body of the loop, id being the read of the chunk tag
Dispatch(buf, id, header, scene, warns) ==
  IF ~id.ok THEN Rejected(id.offset, warns)
  ELSE IF id.val = TagPTA THEN Loaded(scene, id.offset, warns, TRUE)
  ELSE IF id.val = TagGO
  THEN PushChunk(buf, readGeomObject(buf, id.offset, header), header, scene, warns,
                 "objects", TagEndGO, "GO")
  ELSE IF id.val = TagCO
  THEN PushChunk(buf, readCamera(buf, id.offset, header), header, scene, warns,
                 "cameras", TagEndCO, "CO")
  ELSE IF id.val = TagLO
  THEN PushChunk(buf, readLight(buf, id.offset, header), header, scene, warns,
                 "lights", TagEndLO, "LO")
  ELSE IF id.val = TagHO
  THEN PushChunk(buf, readHelper(buf, id.offset, header), header, scene, warns,
                 "helpers", TagEndHO, "HO")
  ELSE \* default: warn, then go on with the next four bytes
    ReadChunks(buf, id.offset, header, scene,
               Append(warns, <<"unknown chunk", id.offset - 4>>))

ReadChunks(buf, off, header, scene, warns) ==
  IF eof(buf, off) THEN Loaded(scene, off, warns, FALSE)
  ELSE Dispatch(buf, readChunkId(buf, off), header, scene, warns)

\* the warning of a block whose leading tag is not the expected one
StartWarn(warns, got, expected, what) ==
  IF got # expected THEN Append(warns, <<"start marker", what>>) ELSE warns

\* the block closed: its value stored in the scene, its end marker checked
CloseBlock(scene, field, c, m, warns, endTag, what) ==
  IF ~c.ok THEN Rejected(c.offset, warns)
  ELSE IF ~m.ok THEN Rejected(m.offset, warns)
  ELSE Loaded([scene EXCEPT ![field] = c.val], m.offset,
              MarkerWarn(warns, m.val, endTag, what), FALSE)

\* mutant: the seek goes to 2048, four bytes behind the end marker
GlobalInfoMarkerAtEnd == GlobalInfoEnd

\* `reader.seek(2048 - 4)`: where the end marker of the block is read
GlobalInfoMarkerAt == GlobalInfoEnd - 4

\* the global-info block, id being the read of its tag: two colours, then
\* reader.seek(2048 - 4) and the end marker
GlobalInfoAfter(buf, id, scene, warns) ==
  IF ~id.ok THEN Rejected(id.offset, warns)
  ELSE CloseBlock(scene, "globalInfo",
                  ReadFields(buf, id.offset,
                             <<<<"bgColor", "vec3">>, <<"ambientColor", "vec3">>>>,
                             [bgColor |-> <<>>]),
                  readChunkId(buf, GlobalInfoMarkerAt),
                  StartWarn(warns, id.val, TagGI, "GI"), TagEndGI, "GI")

\* `if (header.flags & FILE_GLOBALINFO) { ... }`; st.val is the scene
ReadGlobalInfo(buf, st, flags) ==
  IF HasFlag(flags, FILE_GLOBALINFO)
  THEN GlobalInfoAfter(buf, readChunkId(buf, st.offset), st.val, <<>>)
  ELSE Loaded(st.val, st.offset, <<>>, FALSE)

\* the material list l read: its end marker follows
MaterialsRead(buf, l, scene, warns) ==
  IF ~l.ok THEN Rejected(l.offset, warns)
  ELSE CloseBlock(scene, "materials", l, readChunkId(buf, l.offset), warns,
                  TagEndML, "ML")

\* the materials and the end marker of the material list, n being the read
\* of numMaterials
MaterialsCounted(buf, n, scene, warns) ==
  IF ~n.ok THEN Rejected(n.offset, warns)
  ELSE MaterialsRead(buf, ReadMaterialList(buf, n.offset, n.val[1], <<>>), scene, warns)

\* the material-list block, id being the read of its tag
MaterialsAfter(buf, id, scene, warns) ==
  IF ~id.ok THEN Rejected(id.offset, warns)
  ELSE MaterialsCounted(buf, readInt32(buf, id.offset), scene,
                        StartWarn(warns, id.val, TagML, "ML"))

\* mutant: the material list is read whatever the header flags say
ReadMaterialChunkAlways(buf, g, flags) ==
  IF ~g.ok THEN g
  ELSE MaterialsAfter(buf, readChunkId(buf, g.offset), g.scene[1], g.warns)

\* `if (header.flags & FILE_MATERIALS) { ... }`, g being the load so far
ReadMaterialChunk(buf, g, flags) ==
  IF ~g.ok THEN g
  ELSE IF HasFlag(flags, FILE_MATERIALS)
  THEN MaterialsAfter(buf, readChunkId(buf, g.offset), g.scene[1], g.warns)
  ELSE g

\* the chunk loop entered after the header blocks
ReadBody(buf, m, header) ==
  IF ~m.ok THEN m ELSE ReadChunks(buf, m.offset, header, m.scene[1], m.warns)

\* the scene after the header: reader.seek(1024), header and animation range
SceneAfterHeader(header) ==
  Returned([PtaScene EXCEPT !.header = header, !.animStartTime = header.tInit,
                            !.animEndTime = header.tEnd], HeaderSize)

\* loadPtaFile once the header fields h are read
LoadAfterHeader(buf, h) ==
  IF ~h.ok THEN Rejected(h.offset, <<>>)
  ELSE ReadBody(buf,
         ReadMaterialChunk(buf,
           ReadGlobalInfo(buf, SceneAfterHeader(h.val), h.val.flags), h.val.flags),
         h.val)

\* the thirteen header fields, read from offset 0 of a new reader
ReadHeader(buf) ==
  ReadFields(buf, 0,
    <<<<"signature", "tag">>, <<"flags", "i32">>, <<"tInit", "f32">>,
      <<"tEnd", "f32">>, <<"numPosKeys", "i32">>, <<"numSclKeys", "i32">>,
      <<"numRotKeys", "i32">>, <<"numCamKeys", "i32">>,
      <<"numLightKeys", "i32">>, <<"numObjects", "i32">>,
      <<"numCameras", "i32">>, <<"numLights", "i32">>,
      <<"numHelpers", "i32">>>>,
    [signature |-> <<>>])

\* loadPtaFile(url), on the bytes the url serves
loadPtaFile(buf) == LoadAfterHeader(buf, ReadHeader(buf))

\* the cursor behind the header (a) and behind the global-info block (g)
TellAfter(a, g) == IF g.ok THEN <<a.offset, g.offset>> ELSE <<a.offset>>

\* the cursor positions of loadPtaFile before the material list, h being
\* the header read
CursorTrace(buf, h) ==
  IF ~h.ok THEN <<>>
  ELSE TellAfter(SceneAfterHeader(h.val),
                 ReadGlobalInfo(buf, SceneAfterHeader(h.val), h.val.flags))

\* ------------------------------------------------------------------------
\* Scene files offered to the loader
\* ------------------------------------------------------------------------
MaxKeys == 1      \* position keys per track declared by the header
MaxChunks == 2    \* chunks in the body of a file
MaxCut == 6       \* bytes cut off the end of a file
MaxLoads == 2     \* loads of the same url


EncInt32(n) == <<n % 256, (n \div 256) % 256, 0, 0>>
\* 1.0f
EncFloat == <<0, 0, 128, 63>>
RECURSIVE EncFloats(_)
EncFloats(n) == IF n <= 0 THEN <<>> ELSE EncFloat \o EncFloats(n - 1)
Zeros(n) == [i \in 1..n |-> 0]
EncCString(codes) == codes \o <<0>>
RECURSIVE Repeat(_, _)
Repeat(bytes, n) == IF n <= 0 THEN <<>> ELSE bytes \o Repeat(bytes, n - 1)

\* the number of samples the header of a file declares for each kind of
\* track, chosen to differ between the kinds
Declared(kind, keys) ==
  CASE kind = "pos" -> keys
    [] kind = "scl" -> IF keys = 0 THEN 1 ELSE 0
    [] kind = "rot" -> 1
    [] kind = "cam" -> keys
    [] kind = "light" -> IF keys = 0 THEN 1 ELSE 0

\* the 1024-byte header: signature, flags, tInit, tEnd, five key counts,
\* four object counts, reserved bytes
EncHeader(flags, keys) ==
  <<80, 84, 65, 0>> \o EncInt32(flags) \o EncFloats(2)
    \o EncInt32(Declared("pos", keys)) \o EncInt32(Declared("scl", keys))
    \o EncInt32(Declared("rot", keys)) \o EncInt32(Declared("cam", keys))
    \o EncInt32(Declared("light", keys)) \o Repeat(EncInt32(0), 4)
    \o Zeros(HeaderSize - 52)

\* GI__ block: two colours, padding up to offset 2044, end marker
EncGlobalInfo(markerOk) ==
  TagGI \o EncFloats(6) \o Zeros(GlobalInfoEnd - HeaderSize - 32)
    \o (IF markerOk THEN TagEndGI ELSE <<88, 88, 88, 88>>)

\* one material with its flag-gated texture names and its sub-materials
EncMaterial(flags, subs, count) ==
  EncCString(<<77>>) \o EncInt32(flags) \o EncFloats(10)
    \o (IF HasFlag(flags, MAT_HASTEX1) THEN EncCString(<<116, 49>>) ELSE <<>>)
    \o (IF HasFlag(flags, MAT_HASTEX2) THEN EncCString(<<116, 50>>) ELSE <<>>)
    \o EncInt32(count) \o subs

EncMaterialList(rich, markerOk) ==
  TagML
    \o (IF rich
        THEN EncInt32(2)
               \o EncMaterial(MAT_HASTEX1 + MAT_HASTEX2,
                              EncMaterial(MAT_HASTEX2, EncMaterial(0, <<>>, 0), 1), 1)
               \o EncMaterial(MAT_HASTEX1, <<>>, 0)
        ELSE EncInt32(1) \o EncMaterial(0, <<>>, 0))
    \o (IF markerOk THEN TagEndML ELSE <<88, 88, 88, 88>>)

\* position, scale and rotation tracks selected by three flag bits
EncTracks(flags, posBit, sclBit, rotBit, keys) ==
  (IF HasFlag(flags, posBit) THEN EncFloats(4 * Declared("pos", keys)) ELSE <<>>)
    \o (IF HasFlag(flags, sclBit) THEN EncFloats(8 * Declared("scl", keys)) ELSE <<>>)
    \o (IF HasFlag(flags, rotBit) THEN EncFloats(5 * Declared("rot", keys)) ELSE <<>>)

\* a bare object (no vertices, no tracks, no bones) or a rich one (one of
\* each); the deformable bit is set or not in either
EncGeomObject(rich, keys, markerOk, deformable) ==
  LET flags == (IF rich THEN OBJ_MATERIAL + OBJ_POSKEYS + OBJ_SCLKEYS + OBJ_ROTKEYS
                ELSE 0)
               + (IF deformable THEN OBJ_DEFORMABLE ELSE 0)
      n == IF rich THEN 1 ELSE 0
  IN TagGO \o EncCString(<<79>>) \o EncCString(<<>>) \o EncInt32(flags)
       \o (IF rich THEN Repeat(EncInt32(0), 3) ELSE EncFloats(3))
       \o EncFloats(16)
       \* numVertices, numVertexNormals, numColorVertices, numTextureVertices
       \o Repeat(EncInt32(n), 4)
       \* uvChannelFlags, numEdgeFlags, numFaces
       \o EncInt32(IF rich THEN UVCHANNEL_1 + UVCHANNEL_2 ELSE 0)
       \o EncInt32(n) \o EncInt32(n)
       \* vertices, normals, colours, two uv sets, edge flags, faces
       \o EncFloats(3 * n) \o EncFloats(3 * n) \o EncFloats(3 * n)
       \o EncFloats(2 * n) \o EncFloats(2 * n)
       \o Zeros(n) \o Repeat(EncInt32(0), 3 * n)
       \o EncTracks(flags, OBJ_POSKEYS, OBJ_SCLKEYS, OBJ_ROTKEYS, keys)
       \* numBones, then one bone and one linkage record per vertex
       \o EncInt32(n)
       \o (IF rich
           THEN EncInt32(OBJ_POSKEYS + OBJ_ROTKEYS) \o EncFloats(16)
                  \o EncTracks(OBJ_POSKEYS + OBJ_ROTKEYS, OBJ_POSKEYS, OBJ_SCLKEYS,
                               OBJ_ROTKEYS, keys)
                  \o EncInt32(1) \o EncFloats(3) \o EncInt32(0) \o EncFloats(1)
           ELSE <<>>)
       \o (IF markerOk THEN TagEndGO ELSE <<88, 88, 88, 88>>)

\* a camera (settings: near, far, fov) or a light (settings: colour,
\* intensity, falloff); both flag layouts coincide
EncCameraOrLight(tag, endTag, settingFloats, rich, keys, markerOk) ==
  LET flags == IF rich THEN CAM_ANIMSETTINGS + CAM_POSKEYS + CAM_ROTKEYS + TCAM_POSKEYS
                              + TCAM_SCLKEYS
               ELSE 0
  IN tag \o EncCString(<<67>>) \o EncCString(<<112>>)
       \o EncInt32(IF rich THEN 2 ELSE 1) \o EncInt32(flags)
       \o EncFloats(16) \o (IF rich THEN EncFloats(16) ELSE <<>>)
       \o EncFloats(settingFloats)
       \o (IF rich
           THEN EncFloats((settingFloats + 1)
                            * Declared(IF settingFloats = 3 THEN "cam" ELSE "light", keys))
           ELSE <<>>)
       \o EncTracks(flags, CAM_POSKEYS, CAM_SCLKEYS, CAM_ROTKEYS, keys)
       \o EncTracks(flags, TCAM_POSKEYS, TCAM_SCLKEYS, TCAM_ROTKEYS, keys)
       \o (IF markerOk THEN endTag ELSE <<88, 88, 88, 88>>)

EncHelper(rich, keys, markerOk) ==
  LET flags == IF rich THEN OBJ_SCLKEYS + OBJ_ROTKEYS ELSE 0
  IN TagHO \o EncCString(<<72>>) \o EncCString(<<>>) \o EncInt32(flags)
       \o EncFloats(16) \o EncFloats(6)
       \o EncTracks(flags, OBJ_POSKEYS, OBJ_SCLKEYS, OBJ_ROTKEYS, keys)
       \o (IF markerOk THEN TagEndHO ELSE <<88, 88, 88, 88>>)

ChunkKinds == {"GO", "CO", "LO", "HO", "XX"}

EncChunk(kind, rich, keys, markerOk, deformable) ==
  CASE kind = "GO" -> EncGeomObject(rich, keys, markerOk, deformable)
    [] kind = "CO" -> EncCameraOrLight(TagCO, TagEndCO, 3, rich, keys, markerOk)
    [] kind = "LO" -> EncCameraOrLight(TagLO, TagEndLO, 5, rich, keys, markerOk)
    [] kind = "HO" -> EncHelper(rich, keys, markerOk)
    \* a tag the loader does not know
    [] kind = "XX" -> <<88, 88, 88, 88>>

RECURSIVE EncBody(_, _, _, _, _)
EncBody(layout, rich, keys, markerOk, deformable) ==
  IF layout = <<>> THEN <<>>
  ELSE EncChunk(layout[1], rich, keys, markerOk, deformable)
         \o EncBody(SubSeq(layout, 2, Len(layout)), rich, keys, markerOk, deformable)

\* the complete file of a description
FileBytes(f) ==
  EncHeader(f.flags, f.keys)
    \o (IF HasFlag(f.flags, FILE_GLOBALINFO) THEN EncGlobalInfo(f.markerOk) ELSE <<>>)
    \o (IF HasFlag(f.flags, FILE_MATERIALS) THEN EncMaterialList(f.rich, f.markerOk)
        ELSE <<>>)
    \o EncBody(f.layout, f.rich, f.keys, f.markerOk, f.deformable)
    \o TagPTA

\* the bytes the url serves: the file, possibly cut short
ServedBytes(f, length) == SubSeq(FileBytes(f), 1, length)

PtaFiles ==
  [flags : {0, FILE_GLOBALINFO, FILE_MATERIALS, FILE_GLOBALINFO + FILE_MATERIALS},
   keys : 0..MaxKeys,
   rich : BOOLEAN,
   markerOk : BOOLEAN,
   deformable : BOOLEAN,
   layout : UNION {[1..n -> ChunkKinds] : n \in 0..MaxChunks}]

\* lengths a download may stop at: inside the header fields, right after
\* them, inside the reserved bytes, and up to MaxCut bytes before the end
ServedLengths(f) ==
  LET full == Len(FileBytes(f))
  IN {0, 51, 52, HeaderSize - 1} \cup {full - d : d \in 0..MaxCut}

NotLoaded == Rejected(0, <<>>)

PtaInit ==
  /\ ptaFile \in PtaFiles
  /\ ptaLength \in ServedLengths(ptaFile)
  /\ ptaLoads = 0
  /\ ptaResult = NotLoaded
  /\ ptaCursor = <<>>

\* AssetManager.loadPtaScene -> loadPtaFile(url)
LoadPtaFile ==
  /\ ptaLoads < MaxLoads
  /\ ptaResult' = loadPtaFile(ServedBytes(ptaFile, ptaLength))
  /\ ptaCursor' = CursorTrace(ServedBytes(ptaFile, ptaLength),
                              ReadHeader(ServedBytes(ptaFile, ptaLength)))
  /\ ptaLoads' = ptaLoads + 1
  /\ UNCHANGED <<ptaFile, ptaLength>>
  /\ UNCHANGED <<timelineVars, readerVars, interpVars, mainVars>>

PtaNext == LoadPtaFile

PtaIdle ==
  /\ ptaFile = [flags |-> 0, keys |-> 0, rich |-> FALSE, markerOk |-> TRUE,
                deformable |-> FALSE, layout |-> <<>>]
  /\ ptaLength = 0
  /\ ptaLoads = 0
  /\ ptaResult = NotLoaded
  /\ ptaCursor = <<>>

\* ------------------------------------------------------------------------
\* Keyframe interpolation and getTransformMatrix (AnimationSystem)
\* ------------------------------------------------------------------------
MaxSampleTick == 2   \* sample times are the even numbers 0 .. 2 * MaxSampleTick
MaxTrackLen == 4     \* samples per track


\* JavaScript numbers: a rational n/d in lowest terms with d > 0, or one of
\* +Infinity, -Infinity, NaN
RECURSIVE Gcd(_, _)
Gcd(a, b) == IF b = 0 THEN a ELSE Gcd(b, a % b)
Abs(a) == IF a < 0 THEN 0 - a ELSE a
Fin(n, d) ==
  LET g == Gcd(Abs(n), Abs(d))
      sgn == IF d < 0 THEN 0 - 1 ELSE 1
  IN [k |-> "fin", n |-> sgn * (n \div g), d |-> sgn * (d \div g)]
Num(i) == [k |-> "fin", n |-> i, d |-> 1]
PosInf == [k |-> "+inf", n |-> 0, d |-> 0]
NegInf == [k |-> "-inf", n |-> 0, d |-> 0]
NaN == [k |-> "nan", n |-> 0, d |-> 0]

\* a / b on two integers
JsDiv(a, b) ==
  IF b # 0 THEN Fin(a, b)
  ELSE IF a > 0 THEN PosInf
  ELSE IF a < 0 THEN NegInf
  ELSE NaN

\* Math.floor
JsFloor(x) == IF x.k = "fin" THEN Num(x.n \div x.d) ELSE x

\* x < y on two numbers, false when either is NaN
JsLess(x, y) ==
  IF x.k = "nan" \/ y.k = "nan" THEN FALSE
  ELSE IF x.k = "-inf" THEN y.k # "-inf"
  ELSE IF x.k = "+inf" THEN FALSE
  ELSE IF y.k = "-inf" THEN FALSE
  ELSE IF y.k = "+inf" THEN TRUE
  ELSE x.n * y.d < y.n * x.d

\* Math.min and Math.max: NaN if either argument is NaN
JsMin(x, y) == IF x.k = "nan" \/ y.k = "nan" THEN NaN ELSE IF JsLess(y, x) THEN y ELSE x
JsMax(x, y) == IF x.k = "nan" \/ y.k = "nan" THEN NaN ELSE IF JsLess(x, y) THEN y ELSE x

\* lerp(a, b, t) = a + (b - a) * t, for finite a and b and t in [0, 1] or NaN
lerp(a, b, t) ==
  IF t.k # "fin" THEN NaN
  ELSE Fin(a.n * b.d * t.d + (b.n * a.d - a.n * b.d) * t.n, a.d * b.d * t.d)

\* THREE.Quaternion values are opaque; slerp returns its receiver at t = 0,
\* its argument at t = 1 and a blend of the two otherwise
QuatIdentity == <<"quat", 0>>
slerp(qa, qb, t) ==
  IF t = Num(0) THEN qa
  ELSE IF t = Num(1) THEN qb
  ELSE <<"slerp", qa, qb, t>>

Vector3(x, y, z) == [x |-> x, y |-> y, z |-> z]

\* the i-th sample of a track of each kind; the payloads differ from sample
\* to sample and from component to component
PosKey(t, i) == [t |-> t, pos |-> Vector3(Num(i * i + 1), Num(i), Num(0 - i))]
SclKey(t, i) ==
  [t |-> t, scale |-> Vector3(Num(i * i + 1), Num(1), Num(i)), axes |-> <<"quat", i>>]
RotKey(t, i) == [t |-> t, quat |-> <<"quat", i>>]
CamKey(t, i) == [t |-> t, near |-> Num(i), far |-> Num(i * i + 1), fov |-> Num(3 * i)]

NullTrack == [isNull |-> TRUE, keys |-> <<>>]
PosTrack(times) == [isNull |-> FALSE, keys |-> [i \in 1..Len(times) |-> PosKey(times[i], i)]]
SclTrack(times) == [isNull |-> FALSE, keys |-> [i \in 1..Len(times) |-> SclKey(times[i], i)]]
RotTrack(times) == [isNull |-> FALSE, keys |-> [i \in 1..Len(times) |-> RotKey(times[i], i)]]
CamTrack(times) == [isNull |-> FALSE, keys |-> [i \in 1..Len(times) |-> CamKey(times[i], i)]]

\* `!keys || keys.length === 0`
NoKeys(tr) == tr.isNull \/ Len(tr.keys) = 0

\* Math.ceil
JsCeil(x) == IF x.k = "fin" THEN Num(0 - ((0 - x.n) \div x.d)) ELSE x

\* mutant: the segment found by rounding up
SegmentIndexCeil(keys, t, msPerTick) ==
  JsMax(Num(0), JsMin(JsCeil(JsDiv(t - keys[1].t, msPerTick)), Num(Len(keys) - 2)))

\* mutant: the segment index left as computed, without the clamp to [0, n - 2]
SegmentIndexUnclamped(keys, t, msPerTick) ==
  JsFloor(JsDiv(t - keys[1].t, msPerTick))

\* `index = Math.floor((t - keys[0].t) / msPerTick);
\*  index = Math.max(0, Math.min(index, keys.length - 2))`, zero-based
SegmentIndex(keys, t, msPerTick) ==
  JsMax(Num(0), JsMin(JsFloor(JsDiv(t - keys[1].t, msPerTick)), Num(Len(keys) - 2)))

\* `keys[index]`: the element, or undefined when index is not one of 0 .. n - 1
Undefined == [undefined |-> TRUE]
KeyAt(keys, index) ==
  IF index.k = "fin" /\ index.d = 1 /\ index.n >= 0 /\ index.n < Len(keys)
  THEN keys[index.n + 1]
  ELSE Undefined
\* index + 1
Succ(index) == IF index.k = "fin" THEN Fin(index.n + index.d, index.d) ELSE index

\* reading a property of undefined raises a TypeError, which leaves the
\* function in place of a value (one marker per shape of value)
TypeError == [raised |-> "TypeError"]
QuatTypeError == <<"TypeError">>
MatrixTypeError == <<TypeError>>
\* `key0.t` and `key1.xxx` are both defined
Defined(key0, key1) == key0 # Undefined /\ key1 # Undefined

\* `Math.max(0, Math.min(1, (t - key0.t) / msPerTick))`
BlendWeight(key0, t, msPerTick) ==
  JsMax(Num(0), JsMin(Num(1), JsDiv(t - key0.t, msPerTick)))

\* interpolatePosition(keys, t)
interpolatePosition(tr, t) ==
  LET keys == tr.keys
      n == Len(keys)
      msPerTick == keys[2].t - keys[1].t
      index == SegmentIndex(keys, t, msPerTick)
      key0 == KeyAt(keys, index)
      key1 == KeyAt(keys, Succ(index))
      ct == BlendWeight(key0, t, msPerTick)
  IN IF NoKeys(tr) THEN Vector3(Num(0), Num(0), Num(0))
     ELSE IF n = 1 THEN keys[1].pos
     ELSE IF t <= keys[1].t THEN keys[1].pos
     ELSE IF t >= keys[n].t THEN keys[n].pos
     ELSE IF msPerTick <= 0 THEN keys[1].pos
     ELSE IF ~Defined(key0, key1) THEN TypeError
     ELSE Vector3(lerp(key0.pos.x, key1.pos.x, ct),
                  lerp(key0.pos.y, key1.pos.y, ct),
                  lerp(key0.pos.z, key1.pos.z, ct))

\* mutant: the default scale is the zero vector, as the default position is
defaultResultZero == [scale |-> Vector3(Num(0), Num(0), Num(0)), axes |-> QuatIdentity]

\* `const defaultResult = {scale: new THREE.Vector3(1, 1, 1), axes: new THREE.Quaternion()}`
defaultResult == [scale |-> Vector3(Num(1), Num(1), Num(1)), axes |-> QuatIdentity]

\* interpolateScale(keys, t)
interpolateScale(tr, t) ==
  LET keys == tr.keys
      n == Len(keys)
      msPerTick == keys[2].t - keys[1].t
      index == SegmentIndex(keys, t, msPerTick)
      key0 == KeyAt(keys, index)
      key1 == KeyAt(keys, Succ(index))
      ct == BlendWeight(key0, t, msPerTick)
  IN IF NoKeys(tr) THEN defaultResult
     ELSE IF n = 1 THEN [scale |-> keys[1].scale, axes |-> keys[1].axes]
     ELSE IF t <= keys[1].t THEN [scale |-> keys[1].scale, axes |-> keys[1].axes]
     ELSE IF t >= keys[n].t THEN [scale |-> keys[n].scale, axes |-> keys[n].axes]
     ELSE IF msPerTick <= 0 THEN [scale |-> keys[1].scale, axes |-> keys[1].axes]
     ELSE IF ~Defined(key0, key1) THEN TypeError
     ELSE [scale |-> Vector3(lerp(key0.scale.x, key1.scale.x, ct),
                             lerp(key0.scale.y, key1.scale.y, ct),
                             lerp(key0.scale.z, key1.scale.z, ct)),
           axes |-> slerp(key0.axes, key1.axes, ct)]

\* mutant: the upper clamp returns the sample before the last
interpolateRotationOffByOne(tr, t) ==
  LET keys == tr.keys
      n == Len(keys)
      msPerTick == keys[2].t - keys[1].t
      index == SegmentIndex(keys, t, msPerTick)
      key0 == KeyAt(keys, index)
      key1 == KeyAt(keys, Succ(index))
      ct == BlendWeight(key0, t, msPerTick)
  IN IF NoKeys(tr) THEN QuatIdentity
     ELSE IF n = 1 THEN keys[1].quat
     ELSE IF t <= keys[1].t THEN keys[1].quat
     ELSE IF t >= keys[n].t THEN keys[n - 1].quat
     ELSE IF msPerTick <= 0 THEN keys[1].quat
     ELSE IF ~Defined(key0, key1) THEN QuatTypeError
     ELSE slerp(key0.quat, key1.quat, ct)

\* interpolateRotation(keys, t)
interpolateRotation(tr, t) ==
  LET keys == tr.keys
      n == Len(keys)
      msPerTick == keys[2].t - keys[1].t
      index == SegmentIndex(keys, t, msPerTick)
      key0 == KeyAt(keys, index)
      key1 == KeyAt(keys, Succ(index))
      ct == BlendWeight(key0, t, msPerTick)
  IN IF NoKeys(tr) THEN QuatIdentity
     ELSE IF n = 1 THEN keys[1].quat
     ELSE IF t <= keys[1].t THEN keys[1].quat
     ELSE IF t >= keys[n].t THEN keys[n].quat
     ELSE IF msPerTick <= 0 THEN keys[1].quat
     ELSE IF ~Defined(key0, key1) THEN QuatTypeError
     ELSE slerp(key0.quat, key1.quat, ct)

\* interpolateCameraSettings(keys, t, defaults): no `msPerTick <= 0` guard
interpolateCameraSettings(tr, t, defaults) ==
  LET keys == tr.keys
      n == Len(keys)
      msPerTick == keys[2].t - keys[1].t
      index == SegmentIndex(keys, t, msPerTick)
      key0 == KeyAt(keys, index)
      key1 == KeyAt(keys, Succ(index))
      ct == BlendWeight(key0, t, msPerTick)
  IN IF NoKeys(tr) THEN defaults
     ELSE IF n = 1 THEN [near |-> keys[1].near, far |-> keys[1].far, fov |-> keys[1].fov]
     ELSE IF t <= keys[1].t
     THEN [near |-> keys[1].near, far |-> keys[1].far, fov |-> keys[1].fov]
     ELSE IF t >= keys[n].t
     THEN [near |-> keys[n].near, far |-> keys[n].far, fov |-> keys[n].fov]
     ELSE IF ~Defined(key0, key1) THEN TypeError
     ELSE [near |-> lerp(key0.near, key1.near, ct),
           far |-> lerp(key0.far, key1.far, ct),
           fov |-> lerp(key0.fov, key1.fov, ct)]

\* a THREE.Matrix4 is kept as the product of the factors it was built from,
\* leftmost factor first
makeScale(v) == <<[op |-> "makeScale", arg |-> v]>>
makeRotationFromQuaternion(q) == <<[op |-> "makeRotationFromQuaternion", arg |-> q]>>
makeTranslation(v) == <<[op |-> "makeTranslation", arg |-> v]>>
\* result.premultiply(m): result = m x result
premultiply(result, m) == m \o result

\* initialAxes.decompose(): the translation, rotation and scale of the
\* initial matrix; the identity matrix when initialAxes is missing
SomeAxes ==
  [pos |-> Vector3(Num(7), Num(8), Num(9)), quat |-> <<"quat", 9>>,
   scale |-> Vector3(Num(2), Num(3), Num(4))]
IdentityAxes ==
  [pos |-> Vector3(Num(0), Num(0), Num(0)), quat |-> QuatIdentity,
   scale |-> Vector3(Num(1), Num(1), Num(1))]

\* `animation.xxxKeys && animation.xxxKeys.length > 0`
HasKeys(tr) == ~tr.isNull /\ Len(tr.keys) > 0

\* mutant: the factors multiplied on the right
getTransformMatrixPostMultiply(t, animation, initialAxes) ==
  LET axes == IF initialAxes.isNull THEN IdentityAxes ELSE initialAxes.m
      r1 == makeScale(axes.scale)
      r2 == IF HasKeys(animation.sclKeys)
            THEN r1 \o makeScale(interpolateScale(animation.sclKeys, t).scale)
            ELSE r1
      r3 == r2 \o makeRotationFromQuaternion(axes.quat)
      r4 == IF HasKeys(animation.rotKeys)
            THEN r3 \o makeRotationFromQuaternion(interpolateRotation(animation.rotKeys, t))
            ELSE r3
      r5 == r4 \o makeTranslation(axes.pos)
      r6 == IF HasKeys(animation.posKeys)
            THEN r5 \o makeTranslation(interpolatePosition(animation.posKeys, t))
            ELSE r5
  IN r6

\* getTransformMatrix(t, animation, initialAxes)
getTransformMatrix(t, animation, initialAxes) ==
  LET axes == IF initialAxes.isNull THEN IdentityAxes ELSE initialAxes.m
      \* 1. initial axes scale
      r1 == makeScale(axes.scale)
      \* 2. animated scale
      r2 == IF HasKeys(animation.sclKeys)
            THEN premultiply(r1, makeScale(interpolateScale(animation.sclKeys, t).scale))
            ELSE r1
      \* 3. initial axes rotation
      r3 == premultiply(r2, makeRotationFromQuaternion(axes.quat))
      \* 4. animated rotation
      r4 == IF HasKeys(animation.rotKeys)
            THEN premultiply(r3, makeRotationFromQuaternion(
                                   interpolateRotation(animation.rotKeys, t)))
            ELSE r3
      \* 5. initial axes translation
      r5 == premultiply(r4, makeTranslation(axes.pos))
      \* 6. animated translation
      r6 == IF HasKeys(animation.posKeys)
            THEN premultiply(r5, makeTranslation(interpolatePosition(animation.posKeys, t)))
            ELSE r5
      \* an exception of one of the three calls leaves getTransformMatrix
      threw == \/ HasKeys(animation.sclKeys)
                    /\ interpolateScale(animation.sclKeys, t) = TypeError
               \/ HasKeys(animation.rotKeys)
                    /\ interpolateRotation(animation.rotKeys, t) = QuatTypeError
               \/ HasKeys(animation.posKeys)
                    /\ interpolatePosition(animation.posKeys, t) = TypeError
  IN IF threw THEN MatrixTypeError ELSE r6

\* the track of the state, as a track of each kind
KeysOf(tr, kind) ==
  IF tr.isNull THEN NullTrack
  ELSE CASE kind = "pos" -> PosTrack(tr.times)
         [] kind = "scl" -> SclTrack(tr.times)
         [] kind = "rot" -> RotTrack(tr.times)
         [] kind = "cam" -> CamTrack(tr.times)

\* how a track is handed to getTransformMatrix
TrackShapes == {"null", "empty", "keys"}
Shaped(shape, tr, kind) ==
  IF shape = "null" THEN NullTrack
  ELSE IF shape = "empty" THEN [isNull |-> FALSE, keys |-> <<>>]
  ELSE KeysOf(tr, kind)

NoShape == [scl |-> "null", rot |-> "null", pos |-> "null"]
DefaultSettings == [near |-> Num(1), far |-> Num(1000), fov |-> Num(60)]

InterpCall(fn, result, shape, given) ==
  /\ interpFn' = fn
  /\ interpResult' = result
  /\ animShape' = shape
  /\ axesGiven' = given
  /\ UNCHANGED <<track, queryTime>>

InterpolatePosition ==
  /\ InterpCall("interpolatePosition",
                interpolatePosition(KeysOf(track, "pos"), queryTime), NoShape, FALSE)
  /\ UNCHANGED <<timelineVars, readerVars, ptaVars, mainVars>>

InterpolateScale ==
  /\ InterpCall("interpolateScale",
                interpolateScale(KeysOf(track, "scl"), queryTime), NoShape, FALSE)
  /\ UNCHANGED <<timelineVars, readerVars, ptaVars, mainVars>>

InterpolateRotation ==
  /\ InterpCall("interpolateRotation",
                interpolateRotation(KeysOf(track, "rot"), queryTime), NoShape, FALSE)
  /\ UNCHANGED <<timelineVars, readerVars, ptaVars, mainVars>>

InterpolateCameraSettings ==
  /\ InterpCall("interpolateCameraSettings",
                interpolateCameraSettings(KeysOf(track, "cam"), queryTime,
                                          DefaultSettings),
                NoShape, FALSE)
  /\ UNCHANGED <<timelineVars, readerVars, ptaVars, mainVars>>

GetTransformMatrix(shape, given) ==
  /\ InterpCall("getTransformMatrix",
                getTransformMatrix(queryTime,
                  [sclKeys |-> Shaped(shape.scl, track, "scl"),
                   rotKeys |-> Shaped(shape.rot, track, "rot"),
                   posKeys |-> Shaped(shape.pos, track, "pos")],
                  IF given THEN [isNull |-> FALSE, m |-> SomeAxes]
                  ELSE [isNull |-> TRUE, m |-> IdentityAxes]),
                shape, given)
  /\ UNCHANGED <<timelineVars, readerVars, ptaVars, mainVars>>

SampleTimes == {2 * i : i \in 0..MaxSampleTick}
QueryTimes == (0 - 1)..(2 * MaxSampleTick + 1)

RECURSIVE TimesOfLen(_)
TimesOfLen(n) ==
  IF n = 0 THEN {<<>>}
  ELSE {Append(s, x) : s \in TimesOfLen(n - 1), x \in SampleTimes}

InterpInit ==
  /\ track \in {[isNull |-> TRUE, times |-> <<>>]}
               \cup {[isNull |-> FALSE, times |-> s] :
                       s \in UNION {TimesOfLen(n) : n \in 0..MaxTrackLen}}
  /\ queryTime \in QueryTimes
  /\ interpFn = "none"
  /\ interpResult = <<>>
  /\ animShape = NoShape
  /\ axesGiven = FALSE

InterpNext ==
  \/ InterpolatePosition
  \/ InterpolateScale
  \/ InterpolateRotation
  \/ InterpolateCameraSettings
  \/ \E shape \in [scl : TrackShapes, rot : TrackShapes, pos : TrackShapes],
        given \in BOOLEAN :
       GetTransformMatrix(shape, given)

InterpIdle ==
  /\ track = [isNull |-> TRUE, times |-> <<>>]
  /\ queryTime = 0
  /\ interpFn = "none"
  /\ interpResult = <<>>
  /\ animShape = NoShape
  /\ axesGiven = FALSE


\* ------------------------------------------------------------------------
\* MusicPlayer (engine/MusicPlayer.js)
\* ------------------------------------------------------------------------
FrameMs == 86000       \* milliseconds between two animation frames
MaxAudioFrames == 3    \* audio tracks last up to this many animation frames
MaxSeekFrames == 2     \* seek targets reach this many animation frames
MaxMusicTicks == 3     \* clock ticks of the fallback timer under direct calls
MaxIdleTicks == 1      \* clock ticks without an animation frame
MaxUserInputs == 3     \* clicks and key presses of a session

\* DemoManager.duration
DemoDuration == 172000

AudioLengths == {k * FrameMs : k \in 1..MaxAudioFrames}
SeekTargets == {k * FrameMs : k \in 0..MaxSeekFrames}

\* new MusicPlayer() followed by load(url): audio mode on a track of `length`
\* ms when the file loaded, fallback-timer mode (no audio element) when not.
\* currentTime is audio.currentTime in ms, audioPaused is audio.paused.
MusicPlayerAfterLoad(fallback, length) ==
  [fallbackMode |-> fallback, playing |-> FALSE, startTime |-> 0, pausedAt |-> 0,
   currentTime |-> 0, audioPaused |-> TRUE, audioLength |-> length]

\* getTimeMs() at clock time `clock`
getTimeMs(mp, clock) ==
  IF mp.fallbackMode
  THEN IF ~mp.playing THEN mp.pausedAt ELSE clock - mp.startTime
  ELSE mp.currentTime

\* play(); audio.play() on a track that has ended starts it over
play(mp, clock) ==
  IF mp.fallbackMode
  THEN [mp EXCEPT !.startTime = IF mp.pausedAt > 0 THEN clock - mp.pausedAt ELSE clock,
                  !.playing = TRUE]
  ELSE [mp EXCEPT !.audioPaused = FALSE,
                  !.currentTime = IF @ >= mp.audioLength THEN 0 ELSE @,
                  !.playing = TRUE]

\* pause()
pause(mp, clock) ==
  IF mp.fallbackMode
  THEN [mp EXCEPT !.pausedAt = getTimeMs(mp, clock), !.playing = FALSE]
  ELSE [mp EXCEPT !.audioPaused = TRUE, !.playing = FALSE]

\* stop()
stop(mp) ==
  IF mp.fallbackMode
  THEN [mp EXCEPT !.playing = FALSE, !.pausedAt = 0, !.startTime = 0]
  ELSE [mp EXCEPT !.playing = FALSE, !.pausedAt = 0, !.startTime = 0,
                  !.audioPaused = TRUE, !.currentTime = 0]

\* seek(ms); the audio element clamps its position to the track
seek(mp, ms, clock) ==
  IF mp.fallbackMode
  THEN [mp EXCEPT !.pausedAt = ms,
                  !.startTime = IF mp.playing THEN clock - ms ELSE @]
  ELSE [mp EXCEPT !.currentTime = IF ms > mp.audioLength THEN mp.audioLength ELSE ms]

\* FrameMs milliseconds pass: a playing audio element advances and pauses at
\* the end of its track
Elapse(mp) ==
  IF mp.fallbackMode \/ mp.audioPaused THEN mp
  ELSE IF mp.currentTime + FrameMs >= mp.audioLength
  THEN [mp EXCEPT !.currentTime = mp.audioLength, !.audioPaused = TRUE]
  ELSE [mp EXCEPT !.currentTime = @ + FrameMs]

\* performance.now() after them; only the fallback timer reads it
ClockAfter(mp, clock) == IF mp.fallbackMode THEN clock + FrameMs ELSE clock

\* the record of a call: getTimeMs() before it on mp and after it on mp2
MusicCall(op, arg, mp, mp2, clock) ==
  [op |-> op, arg |-> arg, before |-> getTimeMs(mp, clock),
   after |-> getTimeMs(mp2, clock)]
NoMusicCall == [op |-> "new", arg |-> 0, before |-> 0, after |-> 0]

\* the player called directly
MusicPlay ==
  /\ player' = play(player, now)
  /\ musicCall' = MusicCall("play", 0, player, player', now)
  /\ UNCHANGED <<now, timelineVars, readerVars, ptaVars, interpVars, loopVars>>

MusicPause ==
  /\ player' = pause(player, now)
  /\ musicCall' = MusicCall("pause", 0, player, player', now)
  /\ UNCHANGED <<now, timelineVars, readerVars, ptaVars, interpVars, loopVars>>

MusicStop ==
  /\ player' = stop(player)
  /\ musicCall' = MusicCall("stop", 0, player, player', now)
  /\ UNCHANGED <<now, timelineVars, readerVars, ptaVars, interpVars, loopVars>>

MusicSeek(ms) ==
  /\ player' = seek(player, ms, now)
  /\ musicCall' = MusicCall("seek", ms, player, player', now)
  /\ UNCHANGED <<now, timelineVars, readerVars, ptaVars, interpVars, loopVars>>

\* time passes between two calls
MusicTick ==
  /\ now < MaxMusicTicks * FrameMs
  /\ player' = Elapse(player)
  /\ now' = ClockAfter(player, now)
  /\ musicCall' = NoMusicCall
  /\ UNCHANGED <<timelineVars, readerVars, ptaVars, interpVars, loopVars>>

PlayerInit ==
  /\ player \in {MusicPlayerAfterLoad(TRUE, 0)}
                  \cup {MusicPlayerAfterLoad(FALSE, l) : l \in AudioLengths}
  /\ now = 0
  /\ musicCall = NoMusicCall

MusicNext ==
  \/ MusicPlay
  \/ MusicPause
  \/ MusicStop
  \/ \E ms \in SeekTargets : MusicSeek(ms)
  \/ MusicTick

\* ------------------------------------------------------------------------
\* Frame loop (main.js)
\* ------------------------------------------------------------------------
\* start(): running = true, musicPlayer.play(), requestAnimationFrame(loop)
Start ==
  /\ running' = TRUE
  /\ player' = play(player, now)
  /\ musicCall' = MusicCall("play", 0, player, player', now)
  /\ pendingLoops' = pendingLoops + 1
  /\ started' = TRUE
  /\ userStopped' = FALSE

\* the `if (running)` branch of togglePlayPause and of onPause
PausePlayback ==
  /\ running' = FALSE
  /\ player' = pause(player, now)
  /\ musicCall' = MusicCall("pause", 0, player, player', now)
  /\ userStopped' = TRUE
  /\ UNCHANGED <<pendingLoops, started>>

\* the `else` branch of togglePlayPause and the body of onResume
ResumePlayback ==
  /\ running' = TRUE
  /\ player' = play(player, now)
  /\ musicCall' = MusicCall("play", 0, player, player', now)
  /\ pendingLoops' = pendingLoops + 1
  /\ UNCHANGED <<started, userStopped>>

\* the click handler of the start button, up to its await
ClickStart ==
  /\ userInputs < MaxUserInputs
  /\ userInputs' = userInputs + 1
  /\ IF running
     THEN UNCHANGED <<running, player, musicCall, pendingLoops, started, userStopped,
                      awaitingClicks>>
     ELSE IF fullscreenEnabled
     THEN /\ awaitingClicks' = awaitingClicks + 1
          /\ UNCHANGED <<running, player, musicCall, pendingLoops, started, userStopped>>
     ELSE Start /\ UNCHANGED awaitingClicks
  /\ UNCHANGED <<now, fullscreenEnabled, loopFrames, loopTime>>
  /\ UNCHANGED <<timelineVars, readerVars, ptaVars, interpVars>>

\* the fullscreen request settles (granted or denied): the handler goes on
\* with start()
FullscreenSettled ==
  /\ awaitingClicks > 0
  /\ awaitingClicks' = awaitingClicks - 1
  /\ Start
  /\ UNCHANGED <<now, fullscreenEnabled, loopFrames, loopTime, userInputs>>
  /\ UNCHANGED <<timelineVars, readerVars, ptaVars, interpVars>>

\* the click handler of the fullscreen toggle
FsToggle ==
  /\ fullscreenEnabled' = ~fullscreenEnabled
  /\ UNCHANGED <<playerVars, running, pendingLoops, awaitingClicks, loopFrames, loopTime,
                 started, userStopped, userInputs>>
  /\ UNCHANGED <<timelineVars, readerVars, ptaVars, interpVars>>

\* togglePlayPause(), bound to the space bar and to the overlay's onPlayPause
TogglePlayPause ==
  /\ userInputs < MaxUserInputs
  /\ userInputs' = userInputs + 1
  /\ IF running THEN PausePlayback ELSE ResumePlayback
  /\ UNCHANGED <<now, awaitingClicks, fullscreenEnabled, loopFrames, loopTime>>
  /\ UNCHANGED <<timelineVars, readerVars, ptaVars, interpVars>>

\* onPause of the debug overlay
OnPause ==
  /\ userInputs < MaxUserInputs
  /\ userInputs' = userInputs + 1
  /\ IF running THEN PausePlayback
     ELSE UNCHANGED <<running, player, musicCall, pendingLoops, started, userStopped>>
  /\ UNCHANGED <<now, awaitingClicks, fullscreenEnabled, loopFrames, loopTime>>
  /\ UNCHANGED <<timelineVars, readerVars, ptaVars, interpVars>>

\* onResume of the debug overlay
OnResume ==
  /\ userInputs < MaxUserInputs
  /\ userInputs' = userInputs + 1
  /\ IF ~running THEN ResumePlayback
     ELSE UNCHANGED <<running, player, musicCall, pendingLoops, started, userStopped>>
  /\ UNCHANGED <<now, awaitingClicks, fullscreenEnabled, loopFrames, loopTime>>
  /\ UNCHANGED <<timelineVars, readerVars, ptaVars, interpVars>>

\* the Escape key
Escape ==
  /\ userInputs < MaxUserInputs
  /\ userInputs' = userInputs + 1
  /\ running' = FALSE
  /\ player' = stop(player)
  /\ musicCall' = MusicCall("stop", 0, player, player', now)
  /\ userStopped' = TRUE
  /\ UNCHANGED <<now, pendingLoops, started, awaitingClicks, fullscreenEnabled, loopFrames,
                 loopTime>>
  /\ UNCHANGED <<timelineVars, readerVars, ptaVars, interpVars>>

\* loop(), one requestAnimationFrame callback: st carries `running`, the
\* player, the callbacks scheduled for the next animation frame, the frames
\* rendered in this one and the time of the last of them
loop(st, clock) ==
  IF ~st.running THEN st
  ELSE IF getTimeMs(st.player, clock) < DemoDuration
  THEN [st EXCEPT !.scheduled = @ + 1, !.frames = @ + 1,
                  !.time = getTimeMs(st.player, clock)]
  ELSE [st EXCEPT !.running = FALSE, !.player = stop(@), !.stopped = TRUE,
                  !.frames = @ + 1, !.time = getTimeMs(st.player, clock)]

\* the callbacks of one animation frame, run one after the other
RECURSIVE RunCallbacks(_, _, _)
RunCallbacks(k, st, clock) ==
  IF k = 0 THEN st ELSE RunCallbacks(k - 1, loop(st, clock), clock)

\* the state the callbacks of an animation frame leave, FrameMs after the
\* previous one
AfterCallbacks ==
  RunCallbacks(pendingLoops,
               [running |-> running, player |-> Elapse(player), scheduled |-> 0,
                frames |-> 0, time |-> loopTime, stopped |-> FALSE],
               ClockAfter(player, now))

\* an animation frame: the browser runs the callbacks that are pending
AnimationFrame ==
  /\ pendingLoops > 0
  /\ now' = ClockAfter(player, now)
  /\ running' = AfterCallbacks.running
  /\ player' = AfterCallbacks.player
  /\ pendingLoops' = AfterCallbacks.scheduled
  /\ loopFrames' = AfterCallbacks.frames
  /\ loopTime' = AfterCallbacks.time
  /\ musicCall' = IF AfterCallbacks.stopped
                  THEN [op |-> "stop", arg |-> 0, before |-> AfterCallbacks.time,
                        after |-> getTimeMs(player', now')]
                  ELSE musicCall
  /\ IF AfterCallbacks.frames > 0
     THEN /\ RecordFrame(effects, AfterCallbacks.time, NoThrower)
          /\ lastCall' = Call("doFrame", "", <<>>, <<>>, <<>>, 0)
          /\ effects' = effects
     ELSE UNCHANGED timelineVars
  /\ UNCHANGED <<awaitingClicks, fullscreenEnabled, started, userStopped, userInputs>>
  /\ UNCHANGED <<readerVars, ptaVars, interpVars>>

\* time passes without an animation frame (the page is not being painted)
IdleTick ==
  /\ now < MaxIdleTicks * FrameMs
  /\ player' = Elapse(player)
  /\ now' = ClockAfter(player, now)
  /\ UNCHANGED <<musicCall, loopVars>>
  /\ UNCHANGED <<timelineVars, readerVars, ptaVars, interpVars>>

LoopIdle ==
  /\ running = FALSE /\ pendingLoops = 0 /\ awaitingClicks = 0
  /\ fullscreenEnabled = TRUE
  /\ loopFrames = 0 /\ loopTime = NoFrame
  /\ started = FALSE /\ userStopped = FALSE /\ userInputs = 0

\* the state init() leaves behind
LoopInit == PlayerInit /\ LoopIdle

LoopNext ==
  \/ ClickStart
  \/ FullscreenSettled
  \/ FsToggle
  \/ TogglePlayPause
  \/ OnPause
  \/ OnResume
  \/ Escape
  \/ AnimationFrame
  \/ IdleTick

MainIdle ==
  /\ player = MusicPlayerAfterLoad(TRUE, 0) /\ now = 0 /\ musicCall = NoMusicCall
  /\ LoopIdle


\* ------------------------------------------------------------------------
\* Timeline properties
\* ------------------------------------------------------------------------
InvokedInFrame(i) == \E k \in 1..Len(frameCalls) : frameCalls[k].order = effects[i].order

\* C1: doFrame(t) invokes an entry's effect if and only if the entry is not
\* disabled and startTime <= t <= endTime, both bounds inclusive (so an
\* entry is invoked at t = endTime and never after it).
C1_InvokedIffInWindow ==
  frameTime # NoFrame =>
    \A i \in 1..Len(effects) :
      InvokedInFrame(i) <=>
        (/\ effects[i].disabled = FALSE
         /\ effects[i].startTime <= frameTime
         /\ frameTime <= effects[i].endTime)

\* a frame at the last instant of an invoked entry's window, with another
\* entry left out
C1_Witness ==
  /\ frameTime # NoFrame
  /\ \E i, j \in 1..Len(effects) :
       /\ InvokedInFrame(i) /\ effects[i].endTime = frameTime
       /\ ~InvokedInFrame(j)

C3_ThrowingEffectIsIsolated ==
  frameTime # NoFrame =>
    /\ frameThrew = FALSE
    /\ \A i \in 1..Len(effects) :
         (~effects[i].disabled /\ effects[i].startTime <= frameTime
            /\ frameTime <= effects[i].endTime)
         => Cardinality({k \in 1..Len(frameCalls) :
                           frameCalls[k].order = effects[i].order}) = 1

\* the first effect of a frame threw and a later one was still invoked
C3_Witness ==
  /\ Len(frameCalls) >= 2
  /\ effects[frameCalls[1].order + 1].name = frameThrower
  /\ frameWarns # <<>>
  /\ frameThrew = FALSE

\* the first-registered entry of that name, 0 when there is none
FirstNamed(list, name) ==
  IF \E i \in 1..Len(list) : list[i].name = name
  THEN CHOOSE i \in 1..Len(list) :
         list[i].name = name /\ \A j \in 1..Len(list) : list[j].name = name => i <= j
  ELSE 0

\* C13: re-timing a name that matches a registered entry leaves that entry
\* with startTime, endTime and priority equal to the supplied start, end and
\* priority, for every supplied numeric value (0 included).
C13_RetimeSetsSuppliedValues ==
  (lastCall.op = "_updateFXTiming" /\ FirstNamed(effects, lastCall.name) # 0) =>
    LET e == effects[FirstNamed(effects, lastCall.name)]
    IN /\ lastCall.start # <<>> => e.startTime = lastCall.start[1]
       /\ lastCall.end # <<>> => e.endTime = lastCall.end[1]
       /\ lastCall.priority # <<>> => e.priority = lastCall.priority[1]

\* C14: a re-timing step changes no entry other than the first-registered
\* entry of the given name, keeps the list's length and order (names,
\* registration orders and disabled flags stay in place), and leaves the
\* whole list unchanged when no entry has that name.
C14_RetimeTouchesOnlyFirstMatch ==
  [][lastCall'.op = "_updateFXTiming" =>
       LET i == FirstNamed(effects, lastCall'.name)
       IN /\ Len(effects') = Len(effects)
          /\ \A j \in 1..Len(effects) : j # i => effects'[j] = effects[j]
          /\ i # 0 => /\ effects'[i].name = effects[i].name
                      /\ effects'[i].order = effects[i].order
                      /\ effects'[i].disabled = effects[i].disabled
          /\ i = 0 => effects' = effects]_vars

\* two entries share the re-timed name: the first took the supplied start,
\* the second kept a different one
C14_Witness ==
  /\ lastCall.op = "_updateFXTiming"
  /\ Len(effects) = 2
  /\ effects[1].name = lastCall.name /\ effects[2].name = lastCall.name
  /\ lastCall.start = <<1>>
  /\ effects[1].startTime = 1 /\ effects[2].startTime = 0

\* C15: a toggle step flips the disabled flag of the toggled entry and
\* nothing else (length, order, every other entry, the entry's start, end,
\* priority, name and registration order), and toggling the same entry
\* again gives back the list as it was.
C15_ToggleFlipsOnlyTheFlag ==
  [][lastCall'.op = "onToggleEffect" =>
       LET i == lastCall'.index
       IN /\ Len(effects') = Len(effects)
          /\ \A j \in 1..Len(effects) : j # i => effects'[j] = effects[j]
          /\ effects'[i] = [effects[i] EXCEPT !.disabled = ~effects[i].disabled]
          /\ Toggle(effects', i) = effects]_vars

\* an entry enabled again by a toggle while the other entry stays disabled
C15_Witness ==
  /\ lastCall.op = "onToggleEffect"
  /\ Len(effects) = 2
  /\ effects[lastCall.index].disabled = FALSE
  /\ \E j \in 1..2 : j # lastCall.index /\ effects[j].disabled

\* C16: no step removes or reorders an entry: the list never gets shorter,
\* every entry keeps its place and its registration order, doFrame leaves
\* the list unchanged, and the entry at list index i (from 0) has
\* registration order i.
C16_EntriesNeverRemovedOrReordered ==
  [][/\ Len(effects') >= Len(effects)
     /\ \A i \in 1..Len(effects) : effects'[i].order = effects[i].order
     /\ lastCall'.op = "doFrame" => effects' = effects
     /\ \A i \in 1..Len(effects') : effects'[i].order = i - 1]_vars

\* a frame run on a full list in which an entry is disabled
C16_Witness ==
  /\ lastCall.op = "doFrame"
  /\ Len(effects) = MaxEffects
  /\ \E i \in 1..Len(effects) : effects[i].disabled
  /\ frameCalls # <<>>
  /\ effects[Len(effects)].order = Len(effects) - 1

NegativeLocalTime == \E k \in 1..Len(frameCalls) : frameCalls[k].fxTime < 0

\* C17 as stated: every invocation gets local time = clockTime - the
\* entry's start, and some sequence of registration, re-timing and doFrame
\* calls invokes an effect with a local time below 0.
C17_LocalTimeCanBeNegative ==
  /\ [](\A k \in 1..Len(frameCalls) :
          frameCalls[k].fxTime
            = frameCalls[k].demoTime - effects[frameCalls[k].order + 1].startTime)
  /\ <>NegativeLocalTime

\* C17 amended: every invocation gets local time = clockTime - the entry's
\* start, and that local time is never below 0, whatever was registered or
\* re-timed before the frame (an entry is selected only at or after its
\* start).
C17_LocalTimeNeverNegative ==
  \A k \in 1..Len(frameCalls) :
    /\ frameCalls[k].demoTime = frameTime
    /\ frameCalls[k].fxTime
         = frameCalls[k].demoTime - effects[frameCalls[k].order + 1].startTime
    /\ frameCalls[k].fxTime >= 0

\* a frame that invokes one entry exactly at its start and leaves out an
\* enabled entry only because its start is still ahead
C17_Witness ==
  /\ frameTime # NoFrame
  /\ \E k \in 1..Len(frameCalls) : frameCalls[k].fxTime = 0
  /\ \E i \in 1..Len(effects) :
       /\ ~effects[i].disabled
       /\ effects[i].startTime > frameTime /\ effects[i].endTime >= frameTime
       /\ ~InvokedInFrame(i)

\* ------------------------------------------------------------------------
\* BinaryReader properties
\* ------------------------------------------------------------------------
FixedWidthOps ==
  {"readUint8", "readInt8", "readUint16", "readInt16",
   "readUint32", "readInt32", "readFloat", "readDouble"}

WidthOf(op) ==
  IF op \in {"readUint8", "readInt8"} THEN 1
  ELSE IF op \in {"readUint16", "readInt16"} THEN 2
  ELSE IF op = "readDouble" THEN 8
  ELSE 4

NulAtOrAfter(buf, off) == \E i \in (off + 1)..Len(buf) : buf[i] = 0

\* C6: no read returns silently truncated data: a null-terminated string
\* read with no NUL between the offset and the end of the buffer, and a
\* fixed-length string or array read that extends past the end, raise an
\* error.
C6_NoSilentTruncation ==
  /\ (readOp = "readCString" /\ ~NulAtOrAfter(buffer, readFrom)) => readOk = FALSE
  /\ (readOp \in {"readString", "readBytes"} /\ readFrom + readArg > Len(buffer))
       => readOk = FALSE
  /\ (readOp = "readChunkId" /\ readFrom + 4 > Len(buffer)) => readOk = FALSE
  /\ (readOp \in {"readFloatArray", "readUint32Array"}
        /\ readFrom + 4 * readArg > Len(buffer)) => readOk = FALSE

\* C7: a fixed-width read with fewer bytes remaining than its width raises
\* an error and leaves the offset where it was.
C7_ShortFixedReadRaisesInPlace ==
  (readOp \in FixedWidthOps /\ Len(buffer) - readFrom < WidthOf(readOp))
    => (readOk = FALSE /\ offset = readFrom)

\* a one-byte read at offset = length of a non-empty buffer that was read
\* to its end
C7_Witness ==
  /\ readOp = "readUint8"
  /\ Len(buffer) > 0
  /\ readFrom = Len(buffer)
  /\ readOk = FALSE
  /\ offset = Len(buffer)

\* ------------------------------------------------------------------------
\* Scene loader properties
\* ------------------------------------------------------------------------
SawUnknownTag(res) ==
  \E i \in 1..Len(res.warns) : res.warns[i][1] = "unknown chunk"

\* C4: a chunk tag in the body that is not GO__, CO__, LO__, HO__ or _PTA
\* is a fatal decode error: the load aborts and no Scene is returned.
C4_UnknownTagIsFatal ==
  (ptaLoads > 0 /\ SawUnknownTag(ptaResult))
    => (ptaResult.ok = FALSE /\ ptaResult.scene = <<>>)

\* C5: loadPtaFile either fails or returns a Scene whose chunk sequence
\* was terminated by the end-of-file tag; a buffer cut off before that tag
\* never yields a Scene.
C5_SceneOnlyAfterEndTag ==
  ptaLoads > 0 =>
    /\ ptaResult.ok => ptaResult.sawEndTag
    /\ ptaLength < Len(FileBytes(ptaFile)) => ptaResult.scene = <<>>

\* the most recent load decoded the whole file, whose chunks are all known
\* and carry their end markers
WholeFileLoaded ==
  /\ ptaLoads > 0
  /\ ptaLength = Len(FileBytes(ptaFile))
  /\ ptaFile.markerOk
  /\ \A i \in 1..Len(ptaFile.layout) : ptaFile.layout[i] # "XX"

GeomChunks == {i \in 1..Len(ptaFile.layout) : ptaFile.layout[i] = "GO"}

\* C19: in every geometry-object chunk the bone count is read whether or
\* not the deformable bit is set (the end marker is found right behind it
\* or behind the records it announces); a count of 0 decodes successfully
\* with an empty bone list and no linkage, nothing being consumed between
\* the count and the end marker.
C19_BoneCountAlwaysRead ==
  WholeFileLoaded =>
    /\ ptaResult.ok /\ ptaResult.warns = <<>>
    /\ Len(ptaResult.scene[1].objects) = Cardinality(GeomChunks)
    /\ \A i \in 1..Len(ptaResult.scene[1].objects) :
         LET obj == ptaResult.scene[1].objects[i]
         IN /\ HasFlag(obj.flags, OBJ_DEFORMABLE) <=> ptaFile.deformable
            /\ obj.endMarker = TagEndGO
            /\ ~ptaFile.rich => (obj.bones = <<>> /\ obj.vertexBoneData = <<"null">>)
            /\ ptaFile.rich => (Len(obj.bones) = 1 /\ Len(obj.vertexBoneData) = 1)

\* two objects with a bone count of 0 and the deformable bit unset, each
\* followed by its end marker
C19_Witness ==
  /\ WholeFileLoaded /\ ~ptaFile.rich /\ ~ptaFile.deformable
  /\ ptaResult.ok
  /\ Len(ptaResult.scene[1].objects) = 2
  /\ \A i \in 1..2 :
       /\ ptaResult.scene[1].objects[i].bones = <<>>
       /\ ptaResult.scene[1].objects[i].endMarker = TagEndGO

HasGlobalInfo == HasFlag(ptaFile.flags, FILE_GLOBALINFO)
GlobalInfoEndWarned ==
  \E i \in 1..Len(ptaResult.warns) : ptaResult.warns[i] = <<"end marker", "GI">>

\* C20: once the header fields are read the cursor is at offset 1024; with
\* the global-info bit set the block's trailing tag is the four bytes at
\* offset 2044 and the cursor is at 2048 behind the block, wherever the
\* block's content ended; with the bit clear the block consumes nothing.
C20_GlobalInfoEndsAt2048 ==
  ptaLoads > 0 =>
    /\ ptaCursor # <<>> <=> ptaLength >= 52
    /\ ptaCursor # <<>> => ptaCursor[1] = 1024
    /\ (ptaCursor # <<>> /\ ~HasGlobalInfo) => ptaCursor = <<1024, 1024>>
    /\ (ptaCursor # <<>> /\ HasGlobalInfo) =>
         IF ptaLength >= 2048
         THEN /\ ptaCursor = <<1024, 2048>>
              /\ GlobalInfoEndWarned
                   <=> SubSeq(ServedBytes(ptaFile, ptaLength), 2045, 2048) # TagEndGI
         ELSE ptaCursor = <<1024>>

\* a global-info block whose trailing tag at 2044 is not __GI: the warning
\* is logged and the cursor still ends at 2048
C20_Witness ==
  /\ ptaLoads > 0
  /\ HasGlobalInfo /\ ~ptaFile.markerOk
  /\ ptaCursor = <<1024, 2048>>
  /\ GlobalInfoEndWarned
  /\ ptaResult.ok

\* ------------------------------------------------------------------------
\* Transform engine properties
\* ------------------------------------------------------------------------
TrackHasKeys == ~track.isNull /\ Len(track.times) > 0
LastIndex == Len(track.times)

\* C8: getTransformMatrix yields T_anim x T_init x R_anim x R_init x S_anim
\* x S_init, the animated factor of a kind being left out exactly when its
\* track is absent or empty.
C8_CompositionOrder ==
  interpFn = "getTransformMatrix" =>
    LET axes == IF axesGiven THEN SomeAxes ELSE IdentityAxes
        anim(shape) == shape = "keys" /\ TrackHasKeys
    IN interpResult =
         (IF anim(animShape.pos)
          THEN <<[op |-> "makeTranslation",
                  arg |-> interpolatePosition(KeysOf(track, "pos"), queryTime)]>>
          ELSE <<>>)
         \o <<[op |-> "makeTranslation", arg |-> axes.pos]>>
         \o (IF anim(animShape.rot)
             THEN <<[op |-> "makeRotationFromQuaternion",
                     arg |-> interpolateRotation(KeysOf(track, "rot"), queryTime)]>>
             ELSE <<>>)
         \o <<[op |-> "makeRotationFromQuaternion", arg |-> axes.quat]>>
         \o (IF anim(animShape.scl)
             THEN <<[op |-> "makeScale",
                     arg |-> interpolateScale(KeysOf(track, "scl"), queryTime).scale]>>
             ELSE <<>>)
         \o <<[op |-> "makeScale", arg |-> axes.scale]>>

\* all six factors present, built from a track with several samples
C8_Witness ==
  /\ interpFn = "getTransformMatrix"
  /\ axesGiven
  /\ Len(interpResult) = 6
  /\ TrackHasKeys /\ Len(track.times) >= 2
  /\ interpResult[1].op = "makeTranslation" /\ interpResult[6].op = "makeScale"

\* the value of sample i as each function returns it
PositionOf(i) == PosKey(track.times[i], i).pos
ScaleOf(i) == [scale |-> SclKey(track.times[i], i).scale, axes |-> <<"quat", i>>]
RotationOf(i) == <<"quat", i>>
SettingsOf(i) ==
  [near |-> CamKey(track.times[i], i).near, far |-> CamKey(track.times[i], i).far,
   fov |-> CamKey(track.times[i], i).fov]

SampleValue(fn, i) ==
  CASE fn = "interpolatePosition" -> PositionOf(i)
    [] fn = "interpolateScale" -> ScaleOf(i)
    [] fn = "interpolateRotation" -> RotationOf(i)
    [] fn = "interpolateCameraSettings" -> SettingsOf(i)

InterpolationFns ==
  {"interpolatePosition", "interpolateScale", "interpolateRotation",
   "interpolateCameraSettings"}

\* C9 as stated: for every track with at least one sample, t <= the first
\* sample's time returns the first sample's value and t >= the last sample's
\* time returns the last sample's value.
C9_ClampsToFirstAndLast ==
  (interpFn \in InterpolationFns /\ TrackHasKeys) =>
    /\ queryTime <= track.times[1] => interpResult = SampleValue(interpFn, 1)
    /\ queryTime >= track.times[LastIndex]
         => interpResult = SampleValue(interpFn, LastIndex)

\* C9 amended: t <= the first sample's time returns the first sample's
\* value; t >= the last sample's time returns the last sample's value
\* provided t is also after the first sample's time (the first-sample clamp
\* is tested first).
C9_ClampsFirstThenLast ==
  (interpFn \in InterpolationFns /\ TrackHasKeys) =>
    /\ queryTime <= track.times[1] => interpResult = SampleValue(interpFn, 1)
    /\ (queryTime >= track.times[LastIndex] /\ queryTime > track.times[1])
         => interpResult = SampleValue(interpFn, LastIndex)

\* a query past the end of a track of three samples answered by the last one
C9_Witness ==
  /\ interpFn = "interpolateRotation"
  /\ ~track.isNull /\ Len(track.times) = 3
  /\ track.times[1] < track.times[3]
  /\ queryTime > track.times[3]
  /\ interpResult = <<"quat", 3>>

\* samples at equal, positive distances
UniformlySpaced ==
  /\ ~track.isNull /\ Len(track.times) >= 2
  /\ track.times[2] > track.times[1]
  /\ \A i \in 1..(Len(track.times) - 1) :
       track.times[i + 1] - track.times[i] = track.times[2] - track.times[1]

\* (a + b) / 2
HalfSum(a, b) == Fin(a.n * b.d + b.n * a.d, 2 * a.d * b.d)
HalfSum3(u, v) == Vector3(HalfSum(u.x, v.x), HalfSum(u.y, v.y), HalfSum(u.z, v.z))

\* the midpoint value of samples k and k + 1: numeric components averaged,
\* rotations blended with weight 1/2
MidValue(fn, k) ==
  CASE fn = "interpolatePosition" -> HalfSum3(PositionOf(k), PositionOf(k + 1))
    [] fn = "interpolateScale" ->
         [scale |-> HalfSum3(ScaleOf(k).scale, ScaleOf(k + 1).scale),
          axes |-> <<"slerp", <<"quat", k>>, <<"quat", k + 1>>, Fin(1, 2)>>]
    [] fn = "interpolateRotation" ->
         <<"slerp", <<"quat", k>>, <<"quat", k + 1>>, Fin(1, 2)>>
    [] fn = "interpolateCameraSettings" ->
         [near |-> HalfSum(SettingsOf(k).near, SettingsOf(k + 1).near),
          far |-> HalfSum(SettingsOf(k).far, SettingsOf(k + 1).far),
          fov |-> HalfSum(SettingsOf(k).fov, SettingsOf(k + 1).fov)]

\* C10: on a uniformly spaced track, interpolation at the exact midpoint of
\* samples k and k+1 selects segment k and returns the component-wise
\* average of the two samples (weight 1/2).
C10_MidpointIsAverage ==
  (interpFn \in InterpolationFns /\ UniformlySpaced) =>
    \A k \in 1..(Len(track.times) - 1) :
      2 * queryTime = track.times[k] + track.times[k + 1]
        => interpResult = MidValue(interpFn, k)

\* the midpoint of the first segment of a three-sample track
C10_Witness ==
  /\ interpFn = "interpolatePosition"
  /\ UniformlySpaced /\ Len(track.times) = 3
  /\ 2 * queryTime = track.times[1] + track.times[2]
  /\ interpResult = HalfSum3(PositionOf(1), PositionOf(2))

\* what each function returns when it has no sample to return
DefaultValue(fn) ==
  CASE fn = "interpolatePosition" -> Vector3(Num(0), Num(0), Num(0))
    [] fn = "interpolateScale" ->
         [scale |-> Vector3(Num(1), Num(1), Num(1)), axes |-> QuatIdentity]
    [] fn = "interpolateRotation" -> QuatIdentity
    [] fn = "interpolateCameraSettings" -> DefaultSettings

\* C11: a missing track or a track with 0 samples yields the default for
\* every query time (zero position, identity rotation, unit scale with
\* identity axes, the caller's default camera settings), and a track with
\* exactly 1 sample yields that sample's value for every query time.
C11_DefaultOrSingleSample ==
  interpFn \in InterpolationFns =>
    /\ ~TrackHasKeys => interpResult = DefaultValue(interpFn)
    /\ (TrackHasKeys /\ Len(track.times) = 1) => interpResult = SampleValue(interpFn, 1)

\* the scale of an empty (not missing) track, asked after time 0
C11_Witness ==
  /\ interpFn = "interpolateScale"
  /\ ~track.isNull /\ track.times = <<>>
  /\ queryTime > 0
  /\ interpResult.scale = Vector3(Num(1), Num(1), Num(1))

\* the most recent call raised instead of returning
Threw ==
  CASE interpFn = "interpolateRotation" -> interpResult = QuatTypeError
    [] interpFn = "getTransformMatrix" -> interpResult = MatrixTypeError
    [] interpFn \in {"interpolatePosition", "interpolateScale",
                     "interpolateCameraSettings"} -> interpResult = TypeError
    [] OTHER -> FALSE

\* the call got past the early returns and selected a segment
SelectsSegment ==
  /\ interpFn \in InterpolationFns
  /\ TrackHasKeys /\ Len(track.times) >= 2
  /\ track.times[1] < queryTime /\ queryTime < track.times[LastIndex]
  /\ interpFn # "interpolateCameraSettings" => track.times[2] > track.times[1]

\* C12: the interpolation functions and getTransformMatrix are total: for
\* every track (missing, empty, single-sample, non-uniform, first two samples
\* at equal or decreasing times) and every query time they return without
\* raising, the selected segment index is one of 0 .. n - 2, and a missing
\* track falls back to the default (the initial factors alone for
\* getTransformMatrix).
C12_TotalAndInBounds ==
  /\ ~Threw
  /\ SelectsSegment =>
       SegmentIndex(KeysOf(track, "cam").keys, queryTime,
                    track.times[2] - track.times[1])
         \in {Num(i) : i \in 0..(Len(track.times) - 2)}
  /\ (interpFn \in InterpolationFns /\ track.isNull)
       => interpResult = DefaultValue(interpFn)
  /\ (interpFn = "getTransformMatrix" /\ track.isNull) => Len(interpResult) = 3

\* camera settings asked strictly inside a track whose second sample is not
\* after its first
C12_Witness ==
  /\ interpFn = "interpolateCameraSettings"
  /\ SelectsSegment
  /\ track.times[2] <= track.times[1]
  /\ ~Threw

\* ------------------------------------------------------------------------
\* Material list
\* ------------------------------------------------------------------------
HasMaterials == HasFlag(ptaFile.flags, FILE_MATERIALS)
NoTexture == <<"null">>

\* texture names and sub-materials of a decoded material, at every depth
RECURSIVE MaterialShape(_)
MaterialShape(m) ==
  <<m.texture1, m.texture2,
    [i \in 1..Len(m.subMaterials) |-> MaterialShape(m.subMaterials[i])]>>

\* a texture name is present exactly when its flag bit is set, at every depth
RECURSIVE TexturesFollowFlags(_)
TexturesFollowFlags(m) ==
  /\ (m.texture1 # NoTexture) <=> HasFlag(m.flags, MAT_HASTEX1)
  /\ (m.texture2 # NoTexture) <=> HasFlag(m.flags, MAT_HASTEX2)
  /\ \A i \in 1..Len(m.subMaterials) : TexturesFollowFlags(m.subMaterials[i])

\* what the material list of a file declares: two materials, the first with
\* both textures and a sub-material that has the second texture only and a
\* plain sub-material of its own, the second with the first texture only;
\* or one plain material
DeclaredMaterials(rich) ==
  IF rich
  THEN << <<(<<116, 49>>), (<<116, 50>>),
            << <<NoTexture, (<<116, 50>>), << <<NoTexture, NoTexture, <<>> >> >> >> >> >>,
          <<(<<116, 49>>), NoTexture, <<>> >> >>
  ELSE << <<NoTexture, NoTexture, <<>> >> >>

\* C21: readMaterial reads the first texture name iff flag bit 0 is set, then
\* the second iff flag bit 8 is set, then the sub-material count and exactly
\* that many sub-materials, at every depth; the material chunk yields the
\* declared number of top-level materials and ends right in front of its
\* end marker, so that the rest of the file decodes without a warning.
C21_MaterialFieldsFollowFlags ==
  WholeFileLoaded =>
    /\ ptaResult.ok /\ ptaResult.sawEndTag
    /\ ptaResult.warns = <<>>
    /\ ptaResult.offset = ptaLength
    /\ LET materials == ptaResult.scene[1].materials
       IN /\ \A i \in 1..Len(materials) : TexturesFollowFlags(materials[i])
          /\ [i \in 1..Len(materials) |-> MaterialShape(materials[i])]
               = (IF HasMaterials THEN DeclaredMaterials(ptaFile.rich) ELSE <<>>)

\* a nested material list decoded from a whole file
C21_Witness ==
  /\ WholeFileLoaded /\ HasMaterials /\ ptaFile.rich
  /\ ptaResult.ok
  /\ Len(ptaResult.scene[1].materials) = 2
  /\ Len(ptaResult.scene[1].materials[1].subMaterials[1].subMaterials) = 1

\* ------------------------------------------------------------------------
\* End markers
\* ------------------------------------------------------------------------
\* the whole file was served and every chunk of it ends in a foreign tag
MismarkedFileLoaded ==
  /\ ptaLoads > 0
  /\ ptaLength = Len(FileBytes(ptaFile))
  /\ ~ptaFile.markerOk

\* the chunks of a list without the trailing tag they were read with
Unmarked(list) == [i \in 1..Len(list) |-> [list[i] EXCEPT !.endMarker = <<>>]]
SceneUnmarked(s) ==
  [s EXCEPT !.objects = Unmarked(@), !.cameras = Unmarked(@),
            !.lights = Unmarked(@), !.helpers = Unmarked(@)]

IsEndMarkerWarn(w) == w[1] = "end marker"
EndMarkerWarns(warns) == SelectSeq(warns, IsEndMarkerWarn)
IsOtherWarn(w) == w[1] # "end marker"
OtherWarns(warns) == SelectSeq(warns, IsOtherWarn)

\* one warning for each marked block of the file, in file order
IsKnownChunk(kind) == kind # "XX"
MarkedBlocks(f) ==
  (IF HasFlag(f.flags, FILE_GLOBALINFO) THEN <<"GI">> ELSE <<>>)
    \o (IF HasFlag(f.flags, FILE_MATERIALS) THEN <<"ML">> ELSE <<>>)
    \o SelectSeq(f.layout, IsKnownChunk)

\* the load of the same file with every end marker in place
WellMarkedLoad == loadPtaFile(FileBytes([ptaFile EXCEPT !.markerOk = TRUE]))

\* C22: a chunk whose trailing tag differs from its end marker does not end
\* the decode: the four bytes are consumed, the object is added to the scene
\* and decoding goes on at the same offset as if the marker had matched; each
\* mismatch is reported by one warning.
C22_EndMarkerMismatchIsNotFatal ==
  MismarkedFileLoaded =>
    /\ ptaResult.ok
    /\ ptaResult.sawEndTag = WellMarkedLoad.sawEndTag
    /\ ptaResult.offset = WellMarkedLoad.offset
    /\ SceneUnmarked(ptaResult.scene[1]) = SceneUnmarked(WellMarkedLoad.scene[1])
    /\ OtherWarns(ptaResult.warns) = WellMarkedLoad.warns
    /\ EndMarkerWarns(ptaResult.warns)
         = [i \in 1..Len(MarkedBlocks(ptaFile)) |-> <<"end marker", MarkedBlocks(ptaFile)[i]>>]

\* two chunks with foreign trailing tags, both decoded
C22_Witness ==
  /\ MismarkedFileLoaded
  /\ ptaFile.layout = <<"GO", "CO">>
  /\ HasMaterials
  /\ ptaResult.ok /\ ptaResult.sawEndTag
  /\ Len(ptaResult.scene[1].objects) = 1 /\ Len(ptaResult.scene[1].cameras) = 1
  /\ Len(ptaResult.warns) = 3

\* ------------------------------------------------------------------------
\* The smallest file
\* ------------------------------------------------------------------------
\* the header with no feature flag, the end-of-file tag right behind it,
\* served whole
EmptySceneLoaded ==
  /\ ptaLoads > 0
  /\ ptaFile.flags = 0 /\ ptaFile.layout = <<>>
  /\ ptaLength = HeaderSize + 4

\* C23: a 1024-byte header with all feature flags cleared, immediately
\* followed by the end-of-file tag, decodes successfully with no global
\* info and empty material, object, camera, light and helper lists.
C23_HeaderOnlyFileDecodes ==
  EmptySceneLoaded =>
    /\ ptaResult.ok /\ ptaResult.sawEndTag
    /\ ptaResult.warns = <<>>
    /\ ptaResult.offset = ptaLength
    /\ LET scene == ptaResult.scene[1]
       IN /\ scene.globalInfo = <<"null">>
          /\ scene.materials = <<>> /\ scene.objects = <<>>
          /\ scene.cameras = <<>> /\ scene.lights = <<>> /\ scene.helpers = <<>>
          /\ scene.header.flags = 0

\* the smallest file loaded, its header declaring a key per track
C23_Witness ==
  /\ EmptySceneLoaded /\ ptaFile.keys = 1
  /\ ptaResult.ok /\ ptaResult.offset = 1028

\* ------------------------------------------------------------------------
\* End of the buffer
\* ------------------------------------------------------------------------
\* the last call was a read that returned
LastCallRead == readOp \notin {"new", "seek", "skip"} /\ readOk

\* the reads so far have left no byte of the buffer unread: the last one
\* started inside the buffer (every such offset is reached by one-byte reads)
\* and went up to its end
ConsumedAllBytes ==
  /\ LastCallRead
  /\ readFrom \in 0..Len(buffer)
  /\ offset >= Len(buffer)

\* C24: after reads that consume exactly all bytes of the buffer eof() is
\* true and remaining() is 0; while at least one byte is unread eof() is
\* false.
C24_EofExactlyAtEnd ==
  /\ ConsumedAllBytes => (eof(buffer, offset) /\ remaining(buffer, offset) = 0)
  /\ (offset >= 0 /\ offset < Len(buffer)) => ~eof(buffer, offset)

\* ------------------------------------------------------------------------
\* Keyframe tracks
\* ------------------------------------------------------------------------
\* a track has the declared number of samples if its bit is set, none if not
TrackFollowsFlag(o, name, bit, kind) ==
  Len(o[name]) = (IF HasFlag(o.flags, bit) THEN Declared(kind, ptaFile.keys) ELSE 0)

NodeTracksFollowFlags(o) ==
  /\ TrackFollowsFlag(o, "posKeys", OBJ_POSKEYS, "pos")
  /\ TrackFollowsFlag(o, "sclKeys", OBJ_SCLKEYS, "scl")
  /\ TrackFollowsFlag(o, "rotKeys", OBJ_ROTKEYS, "rot")

TargetTracksFollowFlags(o, settings) ==
  /\ TrackFollowsFlag(o, "settingsKeys", CAM_ANIMSETTINGS, settings)
  /\ TrackFollowsFlag(o, "targetPosKeys", TCAM_POSKEYS, "pos")
  /\ TrackFollowsFlag(o, "targetSclKeys", TCAM_SCLKEYS, "scl")
  /\ TrackFollowsFlag(o, "targetRotKeys", TCAM_ROTKEYS, "rot")

\* C25: in every decoded geometry object, bone, camera, light and helper
\* each keyframe track (position, scale, rotation, settings and the target
\* variants) is read iff its flag bit is set and then has exactly the number
\* of samples the header declares for its kind; a track whose bit is clear
\* is empty and takes no bytes, so that every chunk ends on its end marker.
C25_TracksFollowFlags ==
  WholeFileLoaded =>
    /\ ptaResult.ok /\ ptaResult.warns = <<>> /\ ptaResult.offset = ptaLength
    /\ LET scene == ptaResult.scene[1]
       IN /\ \A i \in 1..Len(scene.objects) :
               /\ NodeTracksFollowFlags(scene.objects[i])
               /\ \A b \in 1..Len(scene.objects[i].bones) :
                    NodeTracksFollowFlags(scene.objects[i].bones[b])
          /\ \A i \in 1..Len(scene.helpers) : NodeTracksFollowFlags(scene.helpers[i])
          /\ \A i \in 1..Len(scene.cameras) :
               /\ NodeTracksFollowFlags(scene.cameras[i])
               /\ TargetTracksFollowFlags(scene.cameras[i], "cam")
          /\ \A i \in 1..Len(scene.lights) :
               /\ NodeTracksFollowFlags(scene.lights[i])
               /\ TargetTracksFollowFlags(scene.lights[i], "light")

\* an object with all three tracks and a bone without a scale track, next
\* to a light with settings and target tracks, the header declaring one
\* scale sample and no position sample
C25_Witness ==
  /\ WholeFileLoaded /\ ptaFile.rich /\ ptaFile.keys = 0
  /\ ptaFile.layout = <<"GO", "LO">>
  /\ ptaResult.ok
  /\ Len(ptaResult.scene[1].objects[1].sclKeys) = 1
  /\ Len(ptaResult.scene[1].objects[1].posKeys) = 0
  /\ Len(ptaResult.scene[1].objects[1].bones[1].sclKeys) = 0
  /\ Len(ptaResult.scene[1].objects[1].bones[1].rotKeys) = 1
  /\ Len(ptaResult.scene[1].lights[1].settingsKeys) = 1
  /\ Len(ptaResult.scene[1].lights[1].targetSclKeys) = 1
  /\ Len(ptaResult.scene[1].lights[1].sclKeys) = 0

\* ------------------------------------------------------------------------
\* One algorithm for the four track kinds
\* ------------------------------------------------------------------------
\* The i-th sample of every kind carries i and i * i + 1 among its numeric
\* components and the orientation i, so that the results of two functions on
\* tracks with the same sample times name the pair and the weight each has
\* blended: the two numbers, or the orientation, are equal exactly then.
BlendOfPosition(r) == <<r.x, r.y>>
BlendOfScale(r) == <<r.scale.x, r.scale.z>>
BlendOfCameraSettings(r) == <<r.far, r.near>>

\* C26: the four interpolation functions share one algorithm: on tracks with
\* the same sample times and for the same query time they select the same
\* pair of samples and the same blend weight, whatever the sample times
\* are, also when the first two are equal or decreasing.
C26_SamePairAndWeight ==
  (~track.isNull /\ Len(track.times) >= 1) =>
    LET position == interpolatePosition(KeysOf(track, "pos"), queryTime)
        scale == interpolateScale(KeysOf(track, "scl"), queryTime)
    IN /\ interpFn = "interpolatePosition" =>
            BlendOfPosition(interpResult) = BlendOfScale(scale)
       /\ interpFn = "interpolateScale" =>
            BlendOfScale(interpResult) = BlendOfPosition(position)
       /\ interpFn = "interpolateRotation" => interpResult = scale.axes
       /\ interpFn = "interpolateCameraSettings" =>
            BlendOfCameraSettings(interpResult) = BlendOfPosition(position)

\* ------------------------------------------------------------------------
\* Transitions of the registered timeline
\* ------------------------------------------------------------------------
\* the four two-phase transitions: the overlay, its capture pass, the effects
\* of the scene that ends and of the scene that begins
Transitions ==
  {[overlay |-> "Arrows Transition", capture |-> "Arrows Transition Capture",
    outgoing |-> {"Arrows1", "Arrows2", "Arrows3"},
    incoming |-> {"Particle Steam sph1", "Particled spheres 1"}],
   [overlay |-> "Transition Spike", capture |-> "Transition Spike Capture",
    outgoing |-> {"Particle Steam sph6", "Particled spheres 6"},
    incoming |-> {"pBGLayer1Spike", "Spike", "Pulsating Img 1"}],
   [overlay |-> "Transition Expl", capture |-> "Transition Expl Capture",
    outgoing |-> {"pBGLayer1Spike", "Spike", "Pulsating Img 1", "GlowT", "GlowH",
                  "GlowI", "GlowS", "GlowW", "GlowA", "GlowY", "Glow Arrow"},
    incoming |-> {"Mamut Background", "Mamut"}],
   [overlay |-> "Circles Transition", capture |-> "Circles Transition Capture",
    outgoing |-> {"Euskal 10 Circles"},
    incoming |-> {"Calamares1", "Particle Steam Cal 1"}]}

\* positions in the frame's call sequence of the entry of a name (none: not
\* invoked)
CallsOf(name) ==
  {k \in 1..Len(frameCalls) : effects[frameCalls[k].order + 1].name = name}
InvokedByName(name) == CallsOf(name) # {}
CalledBefore(a, b) == \A i \in CallsOf(a), j \in CallsOf(b) : i < j

RegisteredFrame ==
  /\ frameTime # NoFrame
  /\ effects = RegisteredEffects
  /\ \A i \in 1..Len(effects) : ~effects[i].disabled

\* C27: on the timeline registered by registerAllEffects with no entry
\* disabled, in every frame that invokes a transition overlay its capture
\* pass is invoked earlier in the same frame, after the effects of the
\* outgoing scene and before the effects of the incoming scene.
C27_CaptureBetweenScenes ==
  RegisteredFrame =>
    \A tr \in Transitions :
      InvokedByName(tr.overlay) =>
        /\ InvokedByName(tr.capture)
        /\ CalledBefore(tr.capture, tr.overlay)
        /\ \A o \in tr.outgoing : CalledBefore(o, tr.capture)
        /\ \A n \in tr.incoming : CalledBefore(tr.capture, n)

\* a frame of the spike transition: the outgoing steam effect has the
\* priority of the capture pass and still runs before it
C27_Witness ==
  /\ RegisteredFrame
  /\ frameTime = 36100
  /\ InvokedByName("Transition Spike")
  /\ InvokedByName("Particle Steam sph6") /\ InvokedByName("Spike")
  /\ CalledBefore("Particle Steam sph6", "Transition Spike Capture")
  /\ CalledBefore("Transition Spike Capture", "Spike")

\* ------------------------------------------------------------------------
\* Frame loop and music clock properties
\* ------------------------------------------------------------------------
\* C28: at any time at most one frame-loop callback is pending, and the
\* loop renders at most one frame per animation frame, whatever the
\* interleaving of start clicks, play/pause toggles, Escape, overlay
\* pause/resume and animation frames.
C28_OneFrameLoopPending == pendingLoops <= 1 /\ loopFrames <= 1

\* the loop has terminated: a frame was rendered at a clock time >= the demo
\* duration, running is false, the music is stopped at position 0 and no
\* callback is scheduled
LoopEnded ==
  /\ loopTime # NoFrame
  /\ loopTime >= DemoDuration
  /\ ~running
  /\ ~player.playing
  /\ getTimeMs(player, now) = 0
  /\ pendingLoops = 0

\* C29: after start(), unless the user pauses or stops playback, the frame
\* loop eventually terminates, in fallback-timer mode and in audio mode for
\* every track length.
C29_LoopTerminates == [](started => <>(LoopEnded \/ userStopped))

\* C30: in fallback-timer mode the position getTimeMs() reports is the same
\* right after pause() or play() as right before it, whether the player was
\* paused or playing, and right after seek(ms) it is ms.
C30_OnlySeekAndStopJump ==
  player.fallbackMode =>
    /\ musicCall.op \in {"play", "pause"} => musicCall.after = musicCall.before
    /\ musicCall.op = "seek" => musicCall.after = musicCall.arg

\* values of the variables of a component that is not running
ReaderIdle ==
  /\ buffer = <<>> /\ offset = 0 /\ readOp = "new" /\ readArg = 0
  /\ readFrom = 0 /\ readOk = TRUE /\ readVal = <<>>

\* the timeline
Init == TimelineInit /\ ReaderIdle /\ PtaIdle /\ InterpIdle /\ MainIdle
Next == TimelineNext
Spec == Init /\ [][Next]_vars

\* the timeline under the frame loop: requestAnimationFrame keeps calling
\* doFrame for as long as the demo runs
SpecFrames == Init /\ [][Next]_vars /\ WF_vars(\E t \in ClockTimes, th \in Throwers : DoFrame(t, th))

\* the registered timeline under the frame loop
InitDemo == TimelineInit /\ ReaderIdle /\ PtaIdle /\ InterpIdle /\ MainIdle
NextDemo == DemoNext
SpecDemo == InitDemo /\ [][NextDemo]_vars

\* the music clock under direct calls
InitMusic == PlayerInit /\ LoopIdle /\ TimelineInit /\ ReaderIdle /\ PtaIdle /\ InterpIdle
NextMusic == MusicNext
SpecMusic == InitMusic /\ [][NextMusic]_vars

\* the frame loop: while the page is shown the browser keeps running the
\* pending requestAnimationFrame callbacks
InitLoop == LoopInit /\ TimelineInit /\ ReaderIdle /\ PtaIdle /\ InterpIdle
NextLoop == LoopNext
SpecLoop == InitLoop /\ [][NextLoop]_vars /\ WF_vars(AnimationFrame)

\* the binary cursor
InitReader == ReaderInit /\ TimelineInit /\ PtaIdle /\ InterpIdle /\ MainIdle
NextReader == ReaderNext
SpecReader == InitReader /\ [][NextReader]_vars

\* the scene loader
InitPta == PtaInit /\ TimelineInit /\ ReaderIdle /\ InterpIdle /\ MainIdle
NextPta == PtaNext
SpecPta == InitPta /\ [][NextPta]_vars

\* the transform engine
InitInterp == InterpInit /\ TimelineInit /\ ReaderIdle /\ PtaIdle /\ MainIdle
NextInterp == InterpNext
SpecInterp == InitInterp /\ [][NextInterp]_vars

====
